---------------------------- MODULE Spec2Model ----------------------------
(***************************************************************************)
(* A model of the ArxivAssistant ingestion and retrieval core:             *)
(*   - AsyncPaperProcessor (paper_rag/async_processor.py): the request     *)
(*     thread's queue_article against the worker thread's _worker_loop /   *)
(*     _process_task, statement by statement where the two share state;    *)
(*   - EmbeddingManager (paper_rag/embeddings.py): add_to_index, search,   *)
(*     bm25_search over the vector index, the metadata table, the BM25     *)
(*     index and the three persisted files;                                *)
(*   - QueryProcessor (paper_rag/query_processor.py): the hybrid search.   *)
(*                                                                         *)
(* Scores are integers: a BM25 score and a cosine similarity are held in   *)
(* tenths, a combined score in hundredths (0.3*b + 0.7*s = (3b+7s)/100).   *)
(* A chunk text is identified by the scores it gets against the query at   *)
(* hand: [lex |-> BM25 score, sem |-> similarity].                         *)
(***************************************************************************)
EXTENDS Integers, Sequences, FiniteSets, TLC

VARIABLES
    \* ---- AsyncPaperProcessor ----
    now,                \* int(time.time())
    processing_queue,   \* Queue(): sequence of tasks
    processing_status,  \* dict task_id -> status record
    active_tasks,       \* dict task_id -> active record
    running,            \* self.running
    worker_thread,      \* self.worker_thread: 0 = None, else a thread id
    threads,            \* every worker thread ever started: its position
    rq,                 \* the request thread inside queue_article
    created,            \* history: how many tasks were put on the queue
    started,            \* history: how many tasks turned processing
    finished,           \* history: how many tasks turned terminal
    \* ---- EmbeddingManager ----
    index,              \* self.index: [exists, vecs]
    chunks_metadata,    \* self.chunks_metadata
    bm25_index,         \* self.bm25_index: [exists, corpus]
    disk,               \* faiss_index.bin, chunks_metadata.pkl, bm25_index.pkl
    lastAdd,            \* what the last add_to_index call was given and returned
    \* ---- QueryProcessor ----
    lastQuery,          \* what the last _search_relevant_chunk call returned
    rerankIn,           \* the candidates given to _rerank_with_embeddings
    rerankOut,          \* what it returned
    \* ---- add_to_index and a query on two threads ----
    writer,             \* the thread inside add_to_index: its position
    reader,             \* what the last search / bm25_search call met
    boot,               \* what the last start-up load met
    dialogue,           \* one DialogueManager, with the history of its calls
    chunker,            \* one run of a chunker over the sections of a document
    extracted,          \* the last call of extract_sections
    pipeline,           \* the last call of RAGPipeline.process_article
    worker,             \* the worker thread inside _process_task, with its callbacks
    expansion           \* the last _get_section_chunks call on the chunks of a document

schedVars == <<now, processing_queue, processing_status, active_tasks, running,
               worker_thread, threads, rq, created, started, finished>>
storeVars == <<index, chunks_metadata, bm25_index, disk, lastAdd>>
queryVars == <<lastQuery, rerankIn, rerankOut>>
otherVars == <<writer, reader>>
docVars == <<chunker, extracted>>
lateVars == <<worker, expansion>>
earlyVars == <<schedVars, storeVars, queryVars, otherVars, boot, dialogue, docVars, pipeline>>
restVars == <<boot, dialogue, chunker, extracted, pipeline, lateVars>>
vars == <<schedVars, storeVars, queryVars, otherVars, restVars>>

----------------------------------------------------------------------------
\* Bounds of the model.
MaxTime    == 2     \* the clock runs over 1..MaxTime
MaxTasks   == 2     \* queue_article creates at most this many tasks
MaxThreads == 2     \* worker threads that may ever be started
MaxAdds    == 2     \* add_to_index calls with effect in the store specification
BigDoc     == 10    \* chunks of a long document
LongPaper  == 3     \* chunks of paper Y in the scheduler specification
MaxCands   == 3     \* candidates handed to the re-ranking on its own

Docs == {"X", "Y"}

\* Program constants.
BM25_WEIGHT      == 3    \* 0.3, in tenths
SEMANTIC_WEIGHT  == 7    \* 0.7, in tenths
BEST_SCORE_INIT  == -100 \* best_score = -1, in hundredths
BM25_K           == 10   \* bm25_search(query, k=10)
FALLBACK_K_FILTERED   == 10
FALLBACK_K_UNFILTERED == 5
PROBE_K          == 1    \* search_in_article("test", arxiv_id, k=1)
ARTICLE_K_FACTOR == 3    \* search(query, k=k*3)

Min(a, b) == IF a < b THEN a ELSE b

----------------------------------------------------------------------------
\* Chunk texts, by the scores they get.
SemLevels == {1, 5}
Texts == {[lex |-> 0, sem |-> 1], [lex |-> 20, sem |-> 5]}

NoIndex == [exists |-> FALSE, vecs |-> <<>>]
NoBm25  == [exists |-> FALSE, corpus |-> <<>>]
NoFile  == [exists |-> FALSE, data |-> <<>>]
EmptyDisk == [index |-> NoFile, metadata |-> NoFile, bm25 |-> NoFile]

\* A chunk list handed to add_to_index: n chunks of document d, all of text t;
\* bad > 0 is the position of a chunk dictionary that has no 'metadata' key.
MkChunks(d, t, n, bad) ==
    [i \in 1..n |-> [text |-> t, arxiv_id |-> d, chunk_index |-> i - 1,
                     has_metadata |-> (i # bad)]]


----------------------------------------------------------------------------
\* EmbeddingManager (paper_rag/embeddings.py)

\* What can go wrong inside one add_to_index call: model.encode raises,
\* index.add raises, BM25Okapi raises, or one of the three file writes raises.
AddFaults == {"none", "encode", "add", "bm25", "save_index", "save_meta", "save_bm25"}

NoEmbeddings == [ok |-> FALSE, vecs |-> <<>>]

\* create_embeddings had its except branch returned an empty array instead
\* of None.
create_embeddings_EmptyArray(chunks, fault) ==
    IF chunks = <<>> THEN NoEmbeddings
    ELSE [ok |-> TRUE,
          vecs |-> IF fault = "encode" THEN <<>>
                   ELSE [i \in 1..Len(chunks) |-> chunks[i].text]]

\* create_embeddings: None for an empty chunk list or when encode raises,
\* else one vector per chunk text.
create_embeddings(chunks, fault) ==
    IF chunks = <<>> \/ fault = "encode"
    THEN NoEmbeddings
    ELSE [ok |-> TRUE, vecs |-> [i \in 1..Len(chunks) |-> chunks[i].text]]

\* The rows the loop of add_to_index appends before it ends or raises: the
\* chunks before the first one that has no 'metadata' key (KeyError).
RowsAppended(chunks) ==
    IF \E i \in 1..Len(chunks) : ~chunks[i].has_metadata
    THEN (CHOOSE i \in 1..Len(chunks) :
            /\ ~chunks[i].has_metadata
            /\ \A j \in 1..(i - 1) : chunks[j].has_metadata) - 1
    ELSE Len(chunks)

MetadataRow(start_id, i, chunk) ==
    [id |-> start_id + i - 1, text |-> chunk.text,
     arxiv_id |-> chunk.arxiv_id, chunk_index |-> chunk.chunk_index]

\* _create_bm25_index: the corpus is rebuilt from all of chunks_metadata; an
\* exception inside is caught and leaves bm25_index None.
create_bm25_index(meta, old, fault) ==
    IF meta = <<>> THEN old
    ELSE IF fault = "bm25" THEN NoBm25
    ELSE [exists |-> TRUE, corpus |-> [i \in 1..Len(meta) |-> meta[i].text]]

\* _save_index: index file, then metadata file, then BM25 file (only when a
\* BM25 index exists); the first write that raises ends the save, caught.
save_index(idx, meta, bm, dk, fault) ==
    IF fault = "save_index" THEN dk
    ELSE LET d1 == [dk EXCEPT !.index = [exists |-> TRUE, data |-> idx.vecs]]
         IN IF fault = "save_meta" THEN d1
            ELSE LET d2 == [d1 EXCEPT !.metadata = [exists |-> TRUE, data |-> meta]]
                 IN IF bm.exists /\ fault # "save_bm25"
                    THEN [d2 EXCEPT !.bm25 = [exists |-> TRUE, data |-> bm.corpus]]
                    ELSE d2

\* add_to_index on the store st = [index, chunks_metadata, bm25_index, disk]:
\* the store it leaves and the boolean it returns.
add_to_index(st, chunks, fault) ==
    LET emb == create_embeddings(chunks, fault)
        unchanged == [ret |-> FALSE, index |-> st.index,
                      chunks_metadata |-> st.chunks_metadata,
                      bm25_index |-> st.bm25_index, disk |-> st.disk]
    IN
    IF ~emb.ok THEN unchanged
    ELSE
      LET idx0 == IF st.index.exists THEN st.index
                  ELSE [exists |-> TRUE, vecs |-> <<>>]
      IN
      IF fault = "add" THEN [unchanged EXCEPT !.index = idx0]
      ELSE
        LET start_id == Len(st.chunks_metadata)
            idx1 == [idx0 EXCEPT !.vecs = @ \o emb.vecs]
            nrows == RowsAppended(chunks)
            meta1 == st.chunks_metadata \o
                     [i \in 1..nrows |-> MetadataRow(start_id, i, chunks[i])]
        IN
        IF nrows < Len(chunks)
        THEN [unchanged EXCEPT !.index = idx1, !.chunks_metadata = meta1]
        ELSE
          LET bm == create_bm25_index(meta1, st.bm25_index, fault)
          IN [ret |-> TRUE, index |-> idx1, chunks_metadata |-> meta1,
              bm25_index |-> bm,
              disk |-> save_index(idx1, meta1, bm, st.disk, fault)]

\* The positions 1..Len(scores) by descending score, equal scores in position
\* order, cut to the first k.
TopK(scores, k) ==
    LET n == Len(scores)
        Rank(i) == Cardinality({j \in 1..n :
                                  (scores[j] > scores[i])
                                  \/ (scores[j] = scores[i] /\ j < i)})
    IN [p \in 1..Min(k, n) |-> CHOOSE i \in 1..n : Rank(i) = p - 1]

Hit(row, score) ==
    [text |-> row.text, arxiv_id |-> row.arxiv_id,
     chunk_index |-> row.chunk_index, id |-> row.id, score |-> score]

\* search: the k nearest vectors with their metadata rows; [] without an
\* index, on an empty index, when encode raises, and when a hit has no
\* metadata row (IndexError, caught).
search(st, k, fault) ==
    IF ~st.index.exists \/ st.index.vecs = <<>> \/ fault = "encode" THEN <<>>
    ELSE
      LET vecs == st.index.vecs
          top == TopK([i \in 1..Len(vecs) |-> vecs[i].sem], k)
      IN IF \E p \in 1..Len(top) : top[p] > Len(st.chunks_metadata)
         THEN <<>>
         ELSE [p \in 1..Len(top) |->
                 Hit(st.chunks_metadata[top[p]], vecs[top[p]].sem)]

\* bm25_search: scores for the whole corpus, sorted descending (stable), the
\* first k kept, those without a metadata row dropped.
bm25_search(st, k) ==
    IF ~st.bm25_index.exists \/ st.chunks_metadata = <<>> THEN <<>>
    ELSE
      LET corpus == st.bm25_index.corpus
          top == TopK([i \in 1..Len(corpus) |-> corpus[i].lex], k)
          kept == SelectSeq(top, LAMBDA i : i <= Len(st.chunks_metadata))
      IN [p \in 1..Len(kept) |->
            Hit(st.chunks_metadata[kept[p]], corpus[kept[p]].lex)]

Store == [index |-> index, chunks_metadata |-> chunks_metadata,
          bm25_index |-> bm25_index, disk |-> disk]


----------------------------------------------------------------------------
\* QueryProcessor (paper_rag/query_processor.py)

NoChunk == [text |-> [lex |-> 0, sem |-> 0], arxiv_id |-> "None",
            chunk_index |-> -1, id |-> -1, score |-> 0]
\* None
NoResult == [kind |-> "none", chunk |-> NoChunk, search_type |-> "none",
             bm25_score |-> 0, semantic_score |-> 0]

ByArticle(hits, arxiv_id) == SelectSeq(hits, LAMBDA h : h.arxiv_id = arxiv_id)

\* search_in_article: the dense hits of search(query, k*3) that belong to
\* the article, at most k of them.
search_in_article(st, arxiv_id, k, fault) ==
    LET article_results == ByArticle(search(st, k * ARTICLE_K_FACTOR, fault), arxiv_id)
    IN SubSeq(article_results, 1, Min(k, Len(article_results)))

\* 0.3 * bm25 + 0.7 * similarity, in hundredths.
CombinedScore(c) == BM25_WEIGHT * c.score + SEMANTIC_WEIGHT * c.text.sem

\* The loop of _rerank_with_embeddings from candidate i on, with the best
\* candidate and score found so far.
RECURSIVE RerankLoop(_, _, _, _)
RerankLoop(candidates, i, best_score, best_candidate) ==
    IF i > Len(candidates) THEN best_candidate
    ELSE LET c == candidates[i]
             combined_score == CombinedScore(c)
         IN IF combined_score > best_score
            THEN RerankLoop(candidates, i + 1, combined_score,
                            [kind |-> "hit",
                             chunk |-> [c EXCEPT !.score = combined_score],
                             search_type |-> "hybrid",
                             bm25_score |-> c.score,
                             semantic_score |-> c.text.sem])
            ELSE RerankLoop(candidates, i + 1, best_score, best_candidate)

\* _rerank_with_embeddings: None for no candidates; the first BM25 candidate,
\* untouched, when encode raises; else what the loop leaves.
rerank_with_embeddings(candidates, fault) ==
    IF candidates = <<>> THEN NoResult
    ELSE IF fault = "encode"
    THEN [kind |-> "hit", chunk |-> candidates[1], search_type |-> "bm25",
          bm25_score |-> 0, semantic_score |-> 0]
    ELSE RerankLoop(candidates, 1, BEST_SCORE_INIT, NoResult)

\* _fallback_embedding_search without the filter by article.
fallback_embedding_search_NoFilter(st, arxiv_id, fault) ==
    LET k == IF arxiv_id # "None" THEN FALLBACK_K_FILTERED ELSE FALLBACK_K_UNFILTERED
        results == search(st, k, fault)
    IN IF results = <<>> THEN NoResult
       ELSE [kind |-> "hit", chunk |-> results[1], search_type |-> "dense",
             bm25_score |-> 0, semantic_score |-> 0]

\* _fallback_embedding_search without the test for an empty result list:
\* results[0] raises IndexError.
fallback_embedding_search_NoEmptyTest(st, arxiv_id, fault) ==
    LET k == IF arxiv_id # "None" THEN FALLBACK_K_FILTERED ELSE FALLBACK_K_UNFILTERED
        results == search(st, k, fault)
        filtered_results == ByArticle(results, arxiv_id)
        best(r) == [kind |-> "hit", chunk |-> r[1], search_type |-> "dense",
                    bm25_score |-> 0, semantic_score |-> 0]
    IN IF results = <<>> THEN [NoResult EXCEPT !.kind = "raise"]
       ELSE IF arxiv_id # "None" /\ filtered_results # <<>>
       THEN best(filtered_results)
       ELSE best(results)

\* _fallback_embedding_search: the best dense hit of the article among the
\* first k, or the best dense hit of all when the article has none there.
fallback_embedding_search(st, arxiv_id, fault) ==
    LET k == IF arxiv_id # "None" THEN FALLBACK_K_FILTERED ELSE FALLBACK_K_UNFILTERED
        results == search(st, k, fault)
        filtered_results == ByArticle(results, arxiv_id)
        best(r) == [kind |-> "hit", chunk |-> r[1], search_type |-> "dense",
                    bm25_score |-> 0, semantic_score |-> 0]
    IN IF results = <<>> THEN NoResult
       ELSE IF arxiv_id # "None" /\ filtered_results # <<>>
       THEN best(filtered_results)
       ELSE best(results)

\* _search_relevant_chunk: BM25 candidates, filtered by article, re-ranked;
\* the dense fallback when there is no candidate (left). A None from the
\* re-ranking is subscripted at line 162: TypeError, kind "raise".
search_relevant_chunk(st, arxiv_id, fault) ==
    LET bm25_candidates == bm25_search(st, BM25_K)
        filtered_candidates == IF arxiv_id # "None"
                               THEN ByArticle(bm25_candidates, arxiv_id)
                               ELSE bm25_candidates
    IN IF bm25_candidates = <<>> \/ filtered_candidates = <<>>
       THEN fallback_embedding_search(st, arxiv_id, fault)
       ELSE LET best_candidate == rerank_with_embeddings(filtered_candidates, fault)
            IN IF best_candidate.kind = "none"
               THEN [NoResult EXCEPT !.kind = "raise"]
               ELSE best_candidate

\* What a call gave its caller: a result structure with its success flag, or
\* an exception.
Outcome(success, raised) == [success |-> success, raised |-> raised]
NoOutcome == Outcome(FALSE, FALSE)

\* process_query: no try around _search_relevant_chunk, so its exception goes
\* to the caller; success False for None, success True for a chunk.
process_query(st, arxiv_id, fault) ==
    LET top_chunk == search_relevant_chunk(st, arxiv_id, fault)
    IN IF top_chunk.kind = "raise" THEN Outcome(FALSE, TRUE)
       ELSE IF top_chunk.kind = "none" THEN Outcome(FALSE, FALSE)
       ELSE Outcome(TRUE, FALSE)

\* query_article: process_query inside try; an exception becomes a result
\* with success False.
query_article(st, arxiv_id, fault) ==
    LET result == process_query(st, arxiv_id, fault)
    IN IF result.raised THEN Outcome(FALSE, FALSE) ELSE result

----------------------------------------------------------------------------
\* AsyncPaperProcessor (paper_rag/async_processor.py)

TaskIds == Docs \X (1..MaxTime)      \* f"{arxiv_id}_{int(time.time())}"
NoTask  == <<"None", 0>>
EmptyDict == [k \in {} |-> 0]

\* The two papers of the scheduler specification, as process_article chunks
\* them: X is one chunk, Y is LongPaper chunks closer to the probe "test".
Paper(d) ==
    IF d = "X" THEN MkChunks("X", [lex |-> 0, sem |-> 1], 1, 0)
               ELSE MkChunks(d, [lex |-> 0, sem |-> 5], LongPaper, 0)

\* The dictionary queue_article stores at lines 297-303.
QueuedStatus(d, t) ==
    [status |-> "queued", arxiv_id |-> d, queued_time |-> t,
     done_time |-> 0, cached |-> FALSE]
\* The dictionary _process_task stores at lines 94-100: no queued_time.
ProcessingStatus(d) ==
    [status |-> "processing", arxiv_id |-> d, queued_time |-> 0,
     done_time |-> 0, cached |-> FALSE]

\* status.get('task_id', task_id)
StatusGetTaskId(status, default) ==
    IF "task_id" \in DOMAIN status THEN status.task_id ELSE default

\* The loop's test had it looked for 'queued' alone.
InProgress_QueuedOnly(status, arxiv_id) ==
    status.arxiv_id = arxiv_id /\ status.status = "queued"

\* The test of the loop at lines 280-282.
InProgress(status, arxiv_id) ==
    status.arxiv_id = arxiv_id /\ status.status \in {"queued", "processing"}

\* The request thread: where it is in queue_article, the article and task id
\* of the call, and at pc "return" the value returned (task_id) with the key
\* of the in-progress task the loop found (existing).
IdleRequest == [pc |-> "idle", arxiv_id |-> "None", task_id |-> NoTask,
                existing |-> NoTask]
\* A worker thread: where it is in _worker_loop / _process_task, the task it
\* took (seq: its place in the order tasks were put), the result's flag.
Unborn == [pc |-> "unborn", task_id |-> NoTask, arxiv_id |-> "None",
           seq |-> 0, cached |-> FALSE]
IdleWorker == [Unborn EXCEPT !.pc = "loop"]

IsAlive(t) == threads[t].pc \notin {"unborn", "dead"}

\* queue_article, lines 277-284: the task id, then the search for a task of
\* the article that is queued or processing.
QueueCheck(d) ==
    /\ rq.pc = "idle"
    /\ LET task_id == <<d, now>> IN
       \/ \E k \in DOMAIN processing_status :
             /\ InProgress(processing_status[k], d)
             /\ rq' = [pc |-> "return", arxiv_id |-> d,
                       task_id |-> StatusGetTaskId(processing_status[k], task_id),
                       existing |-> k]
       \/ /\ \A k \in DOMAIN processing_status :
                ~InProgress(processing_status[k], d)
          /\ created < MaxTasks
          /\ rq' = [pc |-> "put", arxiv_id |-> d, task_id |-> task_id,
                    existing |-> NoTask]
    /\ UNCHANGED <<now, processing_queue, processing_status, active_tasks,
                   running, worker_thread, threads, created, started, finished>>
    /\ UNCHANGED <<storeVars, queryVars, otherVars, restVars>>

\* line 294: self.processing_queue.put(task)
QueuePut ==
    /\ rq.pc = "put"
    /\ processing_queue' = Append(processing_queue,
                                  [task_id |-> rq.task_id, arxiv_id |-> rq.arxiv_id,
                                   seq |-> created + 1])
    /\ created' = created + 1
    /\ rq' = [rq EXCEPT !.pc = "status"]
    /\ UNCHANGED <<now, processing_status, active_tasks, running,
                   worker_thread, threads, started, finished>>
    /\ UNCHANGED <<storeVars, queryVars, otherVars, restVars>>

\* lines 297-303: self.processing_status[task_id] = {'status': 'queued', ...}
QueueSetStatus ==
    /\ rq.pc = "status"
    /\ processing_status' =
          (rq.task_id :> QueuedStatus(rq.arxiv_id, now)) @@ processing_status
    /\ rq' = [rq EXCEPT !.pc = "active"]
    /\ UNCHANGED <<now, processing_queue, active_tasks, running,
                   worker_thread, threads, created, started, finished>>
    /\ UNCHANGED <<storeVars, queryVars, otherVars, restVars>>

\* lines 306-314: self.active_tasks[task_id] = {...}; return task_id
QueueSetActive ==
    /\ rq.pc = "active"
    /\ active_tasks' =
          (rq.task_id :> [arxiv_id |-> rq.arxiv_id, status |-> "queued"]) @@ active_tasks
    /\ rq' = [rq EXCEPT !.pc = "return"]
    /\ UNCHANGED <<now, processing_queue, processing_status, running,
                   worker_thread, threads, created, started, finished>>
    /\ UNCHANGED <<storeVars, queryVars, otherVars, restVars>>

\* The caller has the returned task id; the request thread is free again.
QueueReturn ==
    /\ rq.pc = "return"
    /\ rq' = IdleRequest
    /\ UNCHANGED <<now, processing_queue, processing_status, active_tasks,
                   running, worker_thread, threads, created, started, finished>>
    /\ UNCHANGED <<storeVars, queryVars, otherVars, restVars>>

\* _start_worker without its is_alive() test.
StartWorkerGuard_NoAliveTest == TRUE

\* _start_worker: nothing while the current thread is alive; else a new
\* thread runs _worker_loop.
StartWorkerGuard == ~(worker_thread # 0 /\ IsAlive(worker_thread))

StartWorker ==
    /\ StartWorkerGuard
    /\ \E t \in 1..MaxThreads :
          /\ threads[t].pc = "unborn"
          /\ \A u \in 1..(t - 1) : threads[u].pc # "unborn"
          /\ threads' = [threads EXCEPT ![t] = IdleWorker]
          /\ worker_thread' = t
    /\ running' = TRUE
    /\ UNCHANGED <<now, processing_queue, processing_status, active_tasks,
                   rq, created, started, finished>>
    /\ UNCHANGED <<storeVars, queryVars, otherVars, restVars>>

\* stop: self.running = False; the join waits at most 5 seconds and changes
\* nothing.
Stop ==
    /\ running
    /\ running' = FALSE
    /\ UNCHANGED <<now, processing_queue, processing_status, active_tasks,
                   worker_thread, threads, rq, created, started, finished>>
    /\ UNCHANGED <<storeVars, queryVars, otherVars, restVars>>

\* _worker_loop, line 68: while self.running
WorkerLoop(t) ==
    /\ threads[t].pc = "loop"
    /\ threads' = [threads EXCEPT ![t].pc = IF running THEN "poll" ELSE "dead"]
    /\ UNCHANGED <<now, processing_queue, processing_status, active_tasks,
                   running, worker_thread, rq, created, started, finished>>
    /\ UNCHANGED <<storeVars, queryVars, otherVars, restVars>>

\* A LifoQueue in the place of the Queue.
QueueGet_Lifo(q) == [task |-> q[Len(q)], rest |-> SubSeq(q, 1, Len(q) - 1)]

\* Queue.get: the task taken and the queue left.
QueueGet(q) == [task |-> Head(q), rest |-> Tail(q)]

\* _worker_loop, lines 70-74: take a task from the queue, or sleep.
WorkerPoll(t) ==
    /\ threads[t].pc = "poll"
    /\ IF processing_queue # <<>>
       THEN LET got == QueueGet(processing_queue) IN
            /\ threads' = [threads EXCEPT ![t] =
                              [pc |-> "set_processing",
                               task_id |-> got.task.task_id,
                               arxiv_id |-> got.task.arxiv_id,
                               seq |-> got.task.seq,
                               cached |-> FALSE]]
            /\ processing_queue' = got.rest
       ELSE /\ threads' = [threads EXCEPT ![t].pc = "loop"]
            /\ UNCHANGED processing_queue
    /\ UNCHANGED <<now, processing_status, active_tasks, running,
                   worker_thread, rq, created, started, finished>>
    /\ UNCHANGED <<storeVars, queryVars, otherVars, restVars>>

\* _process_task, lines 94-100: self.processing_status[task_id] = {...}
WorkerSetProcessing(t) ==
    /\ threads[t].pc = "set_processing"
    /\ processing_status' =
          (threads[t].task_id :> ProcessingStatus(threads[t].arxiv_id)) @@ processing_status
    /\ started' = started + 1
    /\ threads' = [threads EXCEPT ![t].pc = "mark_active"]
    /\ UNCHANGED <<now, processing_queue, active_tasks, running,
                   worker_thread, rq, created, finished>>
    /\ UNCHANGED <<storeVars, queryVars, otherVars, restVars>>

\* _is_article_processed: the index exists and the dense probe
\* search_in_article("test", arxiv_id, k=1) returns a chunk of the article.
is_article_processed(st, arxiv_id) ==
    /\ st.index.exists
    /\ Len(search_in_article(st, arxiv_id, PROBE_K, "none")) > 0

\* _process_task, lines 103-124: the active task is marked processing; an
\* article found in the index is then completed as cached, any other goes on
\* to process_article.
WorkerMarkActive(t) ==
    /\ threads[t].pc = "mark_active"
    /\ active_tasks' =
          IF threads[t].task_id \in DOMAIN active_tasks
          THEN [active_tasks EXCEPT ![threads[t].task_id].status = "processing"]
          ELSE active_tasks
    /\ threads' = IF is_article_processed(Store, threads[t].arxiv_id)
                  THEN [threads EXCEPT ![t].pc = "complete", ![t].cached = TRUE]
                  ELSE [threads EXCEPT ![t].pc = "process_article"]
    /\ UNCHANGED <<now, processing_queue, processing_status, running,
                   worker_thread, rq, created, started, finished>>
    /\ UNCHANGED <<storeVars, queryVars, otherVars, restVars>>

\* What process_article can meet: nothing, a failed acquisition, or encode
\* raising inside add_to_index.
ProcessFaults == {"none", "fetch", "encode"}

\* RAGPipeline.process_article as called at line 127: acquire and chunk the
\* paper, add the chunks to the index; success or a failure result.
WorkerProcessArticle(t) ==
    /\ threads[t].pc = "process_article"
    /\ \E fault \in ProcessFaults :
         LET r == IF fault = "fetch"
                  THEN add_to_index(Store, <<>>, "none")
                  ELSE add_to_index(Store, Paper(threads[t].arxiv_id), fault)
         IN /\ index' = r.index
            /\ chunks_metadata' = r.chunks_metadata
            /\ bm25_index' = r.bm25_index
            /\ disk' = r.disk
            /\ threads' = [threads EXCEPT ![t].pc = IF r.ret THEN "complete" ELSE "error"]
    /\ UNCHANGED <<now, processing_queue, processing_status, active_tasks,
                   running, worker_thread, rq, created, started, finished>>
    /\ UNCHANGED <<lastAdd, queryVars, otherVars, restVars>>

\* The update of _complete_task (lines 203-209) and of _error_task (232-238).
TerminalStatus(old, status, t, cached) ==
    [old EXCEPT !.status = status, !.done_time = t, !.cached = cached]

\* _complete_task / _error_task up to the status update; a task id that is
\* not in processing_status is left alone.
WorkerFinish(t, pc, status) ==
    /\ threads[t].pc = pc
    /\ IF threads[t].task_id \in DOMAIN processing_status
       THEN /\ processing_status' =
                 [processing_status EXCEPT ![threads[t].task_id] =
                     TerminalStatus(@, status, now, threads[t].cached)]
            /\ finished' = finished + 1
            /\ threads' = [threads EXCEPT ![t].pc = "remove_active"]
       ELSE /\ threads' = [threads EXCEPT ![t] = IdleWorker]
            /\ UNCHANGED <<processing_status, finished>>
    /\ UNCHANGED <<now, processing_queue, active_tasks, running,
                   worker_thread, rq, created, started>>
    /\ UNCHANGED <<storeVars, queryVars, otherVars, restVars>>

WorkerComplete(t) == WorkerFinish(t, "complete", "completed")
WorkerError(t)    == WorkerFinish(t, "error", "error")

\* lines 218-219 and 241-242: del self.active_tasks[task_id]
WorkerRemoveActive(t) ==
    /\ threads[t].pc = "remove_active"
    /\ active_tasks' = [k \in DOMAIN active_tasks \ {threads[t].task_id} |->
                          active_tasks[k]]
    /\ threads' = [threads EXCEPT ![t] = IdleWorker]
    /\ UNCHANGED <<now, processing_queue, processing_status, running,
                   worker_thread, rq, created, started, finished>>
    /\ UNCHANGED <<storeVars, queryVars, otherVars, restVars>>

\* cleanup_old_tasks(max_age_hours): the terminal tasks it removes.
CleanupAges == {0, 1}
\* The age test had it been "at least" instead of "more than".
Expired_NotStrict(status, current_time, max_age_hours) ==
    /\ status.done_time # 0
    /\ current_time - status.done_time >= max_age_hours * 3600
    /\ status.status \in {"completed", "error"}

Expired(status, current_time, max_age_hours) ==
    /\ status.done_time # 0
    /\ current_time - status.done_time > max_age_hours * 3600
    /\ status.status \in {"completed", "error"}

Cleanup(max_age_hours) ==
    /\ rq.pc = "idle"
    /\ processing_status' =
          [k \in {j \in DOMAIN processing_status :
                    ~Expired(processing_status[j], now, max_age_hours)} |->
             processing_status[k]]
    /\ UNCHANGED <<now, processing_queue, active_tasks, running, worker_thread,
                   threads, rq, created, started, finished>>
    /\ UNCHANGED <<storeVars, queryVars, otherVars, restVars>>

\* The clock moves on one second.
Tick ==
    /\ now < MaxTime
    /\ now' = now + 1
    /\ UNCHANGED <<processing_queue, processing_status, active_tasks, running,
                   worker_thread, threads, rq, created, started, finished>>
    /\ UNCHANGED <<storeVars, queryVars, otherVars, restVars>>

\* After AsyncPaperProcessor(): the worker thread is started, nothing is
\* queued.
InitSched ==
    /\ now = 1
    /\ processing_queue = <<>>
    /\ processing_status = EmptyDict
    /\ active_tasks = EmptyDict
    /\ running = TRUE
    /\ worker_thread = 1
    /\ threads = [t \in 1..MaxThreads |-> IF t = 1 THEN IdleWorker ELSE Unborn]
    /\ rq = IdleRequest
    /\ created = 0
    /\ started = 0
    /\ finished = 0

EmptyStore == [index |-> NoIndex, chunks_metadata |-> <<>>,
               bm25_index |-> NoBm25, disk |-> EmptyDisk]
NoAdd == [called |-> FALSE, n |-> 0, chunks |-> <<>>, fault |-> "none",
          ret |-> FALSE, before |-> EmptyStore]
NoQuery == [called |-> FALSE, arxiv_id |-> "None", fault |-> "none",
            result |-> NoResult, process_query |-> NoOutcome,
            query_article |-> NoOutcome]

\* After EmbeddingManager() on a storage root that is empty, or that holds
\* the three files an earlier run saved after indexing paper Y.
StoreIs(st) ==
    /\ index = st.index
    /\ chunks_metadata = st.chunks_metadata
    /\ bm25_index = st.bm25_index
    /\ disk = st.disk

InitStore ==
    /\ \/ StoreIs(EmptyStore)
       \/ StoreIs(add_to_index(EmptyStore, Paper("Y"), "none"))
    /\ lastAdd = NoAdd

NoRerank == [called |-> FALSE, fault |-> "none", result |-> NoResult]

InitQuery ==
    /\ lastQuery = NoQuery
    /\ rerankIn = <<>>
    /\ rerankOut = NoRerank

IdleWriter == [pc |-> "idle", chunks |-> <<>>, start_id |-> 0, i |-> 0]
NoRead == [called |-> FALSE, op |-> "none", during |-> "idle",
           nvec |-> 0, nmeta |-> 0, ncorpus |-> 0, hits |-> <<>>]

NoBoot == [loaded |-> FALSE, fault |-> "none"]

\* DialogueManager(max_chars): no message, no summary block. added, count and
\* crossed are history: the messages added since the last clear, the
\* messages added in all, and whether the last add_message found
\* total_chars above max_chars.
NewDialogue == [messages |-> <<>>, summary_block |-> <<>>, total_chars |-> 0,
                added |-> <<>>, count |-> 0, crossed |-> FALSE]

\* No chunker has run; extract_sections has not been called.
IdleChunker == [pc |-> "idle", path |-> "none", sections |-> <<>>, i |-> 0,
                chunks |-> <<>>, start |-> 0, chunk_index |-> 0]
NoExtract == [called |-> FALSE, text |-> <<>>, headers |-> <<>>, sections |-> <<>>]

\* The worker thread before any task is queued for it: no task in hand, no
\* callback called, no task finished.
IdleProcessTask == [pc |-> "idle", queue |-> <<>>, result |-> "none",
                    status |-> "none", active |-> FALSE, i |-> 0,
                    calls |-> <<>>, raised |-> FALSE, log |-> <<>>]

\* process_article has not been called.
NoProcess == [called |-> FALSE, n |-> 0, acquire |-> "ok", chunking |-> "ok",
              stages |-> <<>>, add_called |-> FALSE, success |-> FALSE,
              error |-> "none", raised |-> FALSE, before |-> EmptyStore]

\* No add_to_index call is under way, no search has been made.
\* No _get_section_chunks call yet.
NoExpansion == [called |-> FALSE, arxiv_id |-> "None", top_chunk |-> 0,
                rows |-> <<>>, section_chunks |-> <<>>]

InitOther ==
    /\ writer = IdleWriter
    /\ reader = NoRead
    /\ boot = NoBoot
    /\ dialogue = NewDialogue
    /\ chunker = IdleChunker
    /\ extracted = NoExtract
    /\ pipeline = NoProcess
    /\ worker = IdleProcessTask
    /\ expansion = NoExpansion

Init == InitSched /\ InitStore /\ InitQuery /\ InitOther

Next ==
    \/ \E d \in Docs : QueueCheck(d)
    \/ QueuePut
    \/ QueueSetStatus
    \/ QueueSetActive
    \/ QueueReturn
    \/ StartWorker
    \/ Stop
    \/ \E t \in 1..MaxThreads : WorkerLoop(t)
    \/ \E t \in 1..MaxThreads : WorkerPoll(t)
    \/ \E t \in 1..MaxThreads : WorkerSetProcessing(t)
    \/ \E t \in 1..MaxThreads : WorkerMarkActive(t)
    \/ \E t \in 1..MaxThreads : WorkerProcessArticle(t)
    \/ \E t \in 1..MaxThreads : WorkerComplete(t)
    \/ \E t \in 1..MaxThreads : WorkerError(t)
    \/ \E t \in 1..MaxThreads : WorkerRemoveActive(t)
    \/ \E h \in CleanupAges : Cleanup(h)
    \/ Tick

Spec == Init /\ [][Next]_vars


----------------------------------------------------------------------------
\* The store on its own: add_to_index calls and queries, one after another.

AddSizes == {1, BigDoc}
QueryFaults == {"none", "encode"}
\* A call either meets one of the faults on well-formed chunks, or is given a
\* list whose last chunk has no 'metadata' key.
AddCases == ({FALSE} \X AddFaults) \cup {<<TRUE, "none">>}

\* embedding_manager.add_to_index(chunks) on n chunks of document d.
AddToIndex(d, t, n, bad, fault) ==
    /\ lastAdd.n < MaxAdds
    /\ LET chunks == MkChunks(d, t, n, bad)
           r == add_to_index(Store, chunks, fault)
       IN /\ index' = r.index
          /\ chunks_metadata' = r.chunks_metadata
          /\ bm25_index' = r.bm25_index
          /\ disk' = r.disk
          /\ lastAdd' = [called |-> TRUE, n |-> lastAdd.n + 1, chunks |-> chunks,
                         fault |-> fault, ret |-> r.ret, before |-> Store]
    /\ lastQuery' = NoQuery
    /\ UNCHANGED <<schedVars, rerankIn, rerankOut, otherVars, restVars>>

\* rag_pipeline.query_article(query, arxiv_id), with what process_query and
\* _search_relevant_chunk gave inside it.
Query(arxiv_id, fault) ==
    /\ lastQuery' = [called |-> TRUE, arxiv_id |-> arxiv_id, fault |-> fault,
                     result |-> search_relevant_chunk(Store, arxiv_id, fault),
                     process_query |-> process_query(Store, arxiv_id, fault),
                     query_article |-> query_article(Store, arxiv_id, fault)]
    /\ UNCHANGED <<schedVars, storeVars, rerankIn, rerankOut, otherVars, restVars>>

NextStore ==
    \/ \E d \in Docs, t \in Texts, n \in AddSizes, c \in AddCases :
          AddToIndex(d, t, n, IF c[1] THEN n ELSE 0, c[2])
    \/ \E arxiv_id \in Docs \cup {"None"}, fault \in QueryFaults :
          Query(arxiv_id, fault)

\* After EmbeddingManager() on an empty storage root.
InitStoreAlone ==
    /\ InitSched
    /\ StoreIs(EmptyStore)
    /\ lastAdd = NoAdd
    /\ InitQuery
    /\ InitOther

SpecStore == InitStoreAlone /\ [][NextStore]_vars

----------------------------------------------------------------------------
\* The re-ranking on its own, over candidate lists as bm25_search hands them
\* on. BM25Okapi scores a term found in more than half of the corpus with
\* epsilon * average_idf, which is negative on a small corpus: a BM25 score
\* may be below zero.
CandLex == {-60, 0, 20}
Candidate(i, lex, sem) ==
    [text |-> [lex |-> lex, sem |-> sem], arxiv_id |-> "X",
     chunk_index |-> i - 1, id |-> i - 1, score |-> lex]

CandidateLists ==
    UNION {{[i \in 1..n |-> Candidate(i, ls[i], ss[i])] :
               ls \in {l \in [1..n -> CandLex] :
                         \A i \in 1..(n - 1) : l[i] >= l[i + 1]},
               ss \in [1..n -> SemLevels]} : n \in 1..MaxCands}

InitRerank ==
    /\ InitSched
    /\ StoreIs(EmptyStore)
    /\ lastAdd = NoAdd
    /\ lastQuery = NoQuery
    /\ rerankIn \in CandidateLists
    /\ rerankOut = NoRerank
    /\ InitOther

\* query_processor._rerank_with_embeddings(query, candidates)
Rerank(fault) ==
    /\ ~rerankOut.called
    /\ rerankOut' = [called |-> TRUE, fault |-> fault,
                     result |-> rerank_with_embeddings(rerankIn, fault)]
    /\ UNCHANGED <<schedVars, storeVars, lastQuery, rerankIn, otherVars, restVars>>

NextRerank == \E fault \in QueryFaults : Rerank(fault)

SpecRerank == InitRerank /\ [][NextRerank]_vars

----------------------------------------------------------------------------
\* add_to_index on the worker thread, statement by statement, while the
\* request thread runs search or bm25_search (no lock guards the store).

IndexCreated(idx) == IF idx.exists THEN idx ELSE [exists |-> TRUE, vecs |-> <<>>]

\* lines 134-136: create_embeddings on well-formed chunks.
AddBegin(d, t, n) ==
    /\ writer.pc = "idle"
    /\ lastAdd.n < MaxAdds
    /\ LET chunks == MkChunks(d, t, n, 0)
       IN /\ create_embeddings(chunks, "none").ok
          /\ writer' = [pc |-> "create_index", chunks |-> chunks,
                        start_id |-> 0, i |-> 0]
          /\ lastAdd' = [called |-> FALSE, n |-> lastAdd.n + 1, chunks |-> chunks,
                         fault |-> "none", ret |-> FALSE, before |-> Store]
    /\ UNCHANGED <<index, chunks_metadata, bm25_index, disk>>
    /\ UNCHANGED <<schedVars, queryVars, reader, restVars>>

\* lines 139-146: the index is created when there is none; start_id.
AddCreateIndex ==
    /\ writer.pc = "create_index"
    /\ index' = IndexCreated(index)
    /\ writer' = [writer EXCEPT !.pc = "index_add",
                                !.start_id = Len(chunks_metadata)]
    /\ UNCHANGED <<chunks_metadata, bm25_index, disk, lastAdd>>
    /\ UNCHANGED <<schedVars, queryVars, reader, restVars>>

\* line 147: self.index.add(embeddings)
AddVectors ==
    /\ writer.pc = "index_add"
    /\ index' = [index EXCEPT
                   !.vecs = @ \o create_embeddings(writer.chunks, "none").vecs]
    /\ writer' = [writer EXCEPT !.pc = "rows", !.i = 1]
    /\ UNCHANGED <<chunks_metadata, bm25_index, disk, lastAdd>>
    /\ UNCHANGED <<schedVars, queryVars, reader, restVars>>

\* lines 149-156: one turn of the loop, self.chunks_metadata.append(...)
AddRow ==
    /\ writer.pc = "rows"
    /\ chunks_metadata' =
          Append(chunks_metadata,
                 MetadataRow(writer.start_id, writer.i, writer.chunks[writer.i]))
    /\ writer' = IF writer.i = Len(writer.chunks)
                 THEN [writer EXCEPT !.pc = "bm25"]
                 ELSE [writer EXCEPT !.i = @ + 1]
    /\ UNCHANGED <<index, bm25_index, disk, lastAdd>>
    /\ UNCHANGED <<schedVars, queryVars, reader, restVars>>

\* line 158: self._create_bm25_index()
AddBm25 ==
    /\ writer.pc = "bm25"
    /\ bm25_index' = create_bm25_index(chunks_metadata, bm25_index, "none")
    /\ writer' = [writer EXCEPT !.pc = "save"]
    /\ UNCHANGED <<index, chunks_metadata, disk, lastAdd>>
    /\ UNCHANGED <<schedVars, queryVars, reader, restVars>>

\* lines 162-164: self._save_index(); return True
AddSave ==
    /\ writer.pc = "save"
    /\ disk' = save_index(index, chunks_metadata, bm25_index, disk, "none")
    /\ lastAdd' = [lastAdd EXCEPT !.called = TRUE, !.ret = TRUE]
    /\ writer' = IdleWriter
    /\ UNCHANGED <<index, chunks_metadata, bm25_index>>
    /\ UNCHANGED <<schedVars, queryVars, reader, restVars>>

ReadOps == {"search", "bm25_search"}

\* One search(query, k=5) or bm25_search(query, k=10) call on the request
\* thread, taken as a whole: the sizes it met and the hits it returned.
Read(op) ==
    /\ reader' = [called |-> TRUE, op |-> op, during |-> writer.pc,
                  nvec |-> Len(index.vecs),
                  nmeta |-> Len(chunks_metadata),
                  ncorpus |-> Len(bm25_index.corpus),
                  hits |-> IF op = "search"
                           THEN Len(search(Store, FALLBACK_K_UNFILTERED, "none"))
                           ELSE Len(bm25_search(Store, BM25_K))]
    /\ UNCHANGED <<schedVars, storeVars, queryVars, writer, restVars>>

NextConcurrent ==
    \/ \E d \in Docs, t \in Texts, n \in AddSizes : AddBegin(d, t, n)
    \/ AddCreateIndex
    \/ AddVectors
    \/ AddRow
    \/ AddBm25
    \/ AddSave
    \/ \E op \in ReadOps : Read(op)

SpecConcurrent == InitStoreAlone /\ [][NextConcurrent]_vars

----------------------------------------------------------------------------
\* Start-up loading: a new process builds its EmbeddingManager from the files
\* an earlier process left.

LoadFaults == {"none", "unreadable"}

\* _load_existing_index: nothing is loaded unless the index file and the
\* metadata file both exist; a read that raises resets all three structures.
load_existing_index(dk, fault) ==
    IF ~dk.index.exists \/ ~dk.metadata.exists \/ fault = "unreadable"
    THEN [index |-> NoIndex, chunks_metadata |-> <<>>, bm25_index |-> NoBm25]
    ELSE [index |-> [exists |-> TRUE, vecs |-> dk.index.data],
          chunks_metadata |-> dk.metadata.data,
          bm25_index |-> IF dk.bm25.exists
                         THEN [exists |-> TRUE, corpus |-> dk.bm25.data]
                         ELSE NoBm25]

\* The process ends and a new one starts: EmbeddingManager() on the files.
Restart(fault) ==
    /\ LET st == load_existing_index(disk, fault)
       IN /\ index' = st.index
          /\ chunks_metadata' = st.chunks_metadata
          /\ bm25_index' = st.bm25_index
    /\ boot' = [loaded |-> TRUE, fault |-> fault]
    /\ lastAdd' = [NoAdd EXCEPT !.n = lastAdd.n]
    /\ lastQuery' = NoQuery
    /\ UNCHANGED <<disk, schedVars, rerankIn, rerankOut, otherVars, dialogue, docVars, pipeline, lateVars>>

\* Between restarts add_to_index is given well-formed chunks and may meet any
\* of its faults.
NextRestart ==
    \/ \E d \in Docs, t \in Texts, n \in AddSizes, fault \in AddFaults :
          AddToIndex(d, t, n, 0, fault)
    \/ \E fault \in LoadFaults : Restart(fault)

SpecRestart == InitStoreAlone /\ [][NextRestart]_vars

----------------------------------------------------------------------------
\* DialogueManager (ui/dialogue_manager.py). A message is its role, the
\* length of its content and the number under which it was added; a text is
\* the sequence of its lines.

MaxMessages == 6     \* add_message calls in one behaviour
max_chars   == 4     \* DialogueManager(max_chars)
MsgLens == {1, 6}
Roles == {"user", "assistant"}

\* sum(msg.char_count for msg in messages)
RECURSIVE SumChars(_)
SumChars(messages) ==
    IF messages = <<>> THEN 0
    ELSE Head(messages).char_count + SumChars(Tail(messages))

HeaderLine(h) == [kind |-> h, role |-> "none", char_count |-> 0, id |-> 0]
BlankLine == HeaderLine("blank")
MessageLine(msg) == [kind |-> "message", role |-> msg.role,
                     char_count |-> msg.char_count, id |-> msg.id]

\* _create_summary_text: one line per message, an empty line between two.
RECURSIVE create_summary_text(_)
create_summary_text(messages) ==
    IF messages = <<>> THEN <<>>
    ELSE IF Len(messages) = 1 THEN <<MessageLine(messages[1])>>
    ELSE <<MessageLine(messages[1]), BlankLine>> \o create_summary_text(Tail(messages))

\* _summarize_old_messages had it left total_chars as it was.
summarize_old_messages_NoRecount(dm) ==
    IF Len(dm.messages) < 2 THEN dm
    ELSE LET half_index == Len(dm.messages) \div 2
         IN [dm EXCEPT
               !.summary_block =
                   (IF dm.summary_block # <<>>
                    THEN dm.summary_block \o <<BlankLine>>
                    ELSE <<>>)
                   \o <<HeaderLine("previous")>>
                   \o create_summary_text(SubSeq(dm.messages, 1, half_index)),
               !.messages = SubSeq(dm.messages, half_index + 1, Len(dm.messages))]

\* _summarize_old_messages had it asked for three messages.
summarize_old_messages_MinThree(dm) ==
    IF Len(dm.messages) < 3 THEN dm
    ELSE LET half_index == Len(dm.messages) \div 2
             rest == SubSeq(dm.messages, half_index + 1, Len(dm.messages))
         IN [dm EXCEPT
               !.summary_block =
                   (IF dm.summary_block # <<>>
                    THEN dm.summary_block \o <<BlankLine>>
                    ELSE <<>>)
                   \o <<HeaderLine("previous")>>
                   \o create_summary_text(SubSeq(dm.messages, 1, half_index)),
               !.messages = rest,
               !.total_chars = SumChars(rest)]

\* _summarize_old_messages had it replaced the summary block.
summarize_old_messages_Replace(dm) ==
    IF Len(dm.messages) < 2 THEN dm
    ELSE LET half_index == Len(dm.messages) \div 2
             rest == SubSeq(dm.messages, half_index + 1, Len(dm.messages))
         IN [dm EXCEPT
               !.summary_block =
                   <<HeaderLine("previous")>>
                   \o create_summary_text(SubSeq(dm.messages, 1, half_index)),
               !.messages = rest,
               !.total_chars = SumChars(rest)]

\* _summarize_old_messages: nothing with fewer than two messages; else the
\* first half goes to the end of the summary block and total_chars is
\* recomputed.
summarize_old_messages(dm) ==
    IF Len(dm.messages) < 2 THEN dm
    ELSE LET half_index == Len(dm.messages) \div 2
             summary_text == create_summary_text(SubSeq(dm.messages, 1, half_index))
             rest == SubSeq(dm.messages, half_index + 1, Len(dm.messages))
         IN [dm EXCEPT
               !.summary_block =
                   IF dm.summary_block # <<>>
                   THEN dm.summary_block \o <<BlankLine, HeaderLine("previous")>>
                                         \o summary_text
                   ELSE <<HeaderLine("previous")>> \o summary_text,
               !.messages = rest,
               !.total_chars = SumChars(rest)]

\* add_message(role, content)
add_message(dm, role, char_count) ==
    LET message == [role |-> role, char_count |-> char_count, id |-> dm.count + 1]
        dm1 == [dm EXCEPT !.messages = Append(@, message),
                          !.total_chars = @ + message.char_count,
                          !.added = Append(@, message.id),
                          !.count = @ + 1,
                          !.crossed = (dm.total_chars + message.char_count > max_chars)]
    IN IF dm1.total_chars > max_chars THEN summarize_old_messages(dm1) ELSE dm1

\* clear_dialogue
clear_dialogue(dm) ==
    [dm EXCEPT !.messages = <<>>, !.summary_block = <<>>, !.total_chars = 0,
               !.added = <<>>, !.crossed = FALSE]

\* get_dialogue_context had it put the current dialogue first.
get_dialogue_context_LiveFirst(dm) ==
    (IF dm.messages # <<>>
     THEN <<HeaderLine("current")>> \o
          [i \in 1..Len(dm.messages) |-> MessageLine(dm.messages[i])]
     ELSE <<>>)
    \o (IF dm.summary_block # <<>> THEN <<BlankLine>> \o dm.summary_block ELSE <<>>)

\* get_dialogue_context: the summary block and an empty line when there is a
\* block, then the header of the current dialogue and one line per message.
get_dialogue_context(dm) ==
    (IF dm.summary_block # <<>> THEN dm.summary_block \o <<BlankLine>> ELSE <<>>)
    \o (IF dm.messages # <<>>
        THEN <<HeaderLine("current")>> \o
             [i \in 1..Len(dm.messages) |-> MessageLine(dm.messages[i])]
        ELSE <<>>)

AddMessage(role, char_count) ==
    /\ dialogue.count < MaxMessages
    /\ dialogue' = add_message(dialogue, role, char_count)
    /\ UNCHANGED <<schedVars, storeVars, queryVars, otherVars, boot, docVars, pipeline, lateVars>>

ClearDialogue ==
    /\ dialogue' = clear_dialogue(dialogue)
    /\ UNCHANGED <<schedVars, storeVars, queryVars, otherVars, boot, docVars, pipeline, lateVars>>

NextDialogue ==
    \/ \E role \in Roles, char_count \in MsgLens : AddMessage(role, char_count)
    \/ ClearDialogue

SpecDialogue == InitStoreAlone /\ [][NextDialogue]_vars

----------------------------------------------------------------------------
\* The two chunkers (section_chunking.py, hybrid_processor.py). A section is
\* the length of its text (0: nothing but whitespace); a chunk is the number
\* of its section in the list, its metadata.chunk_index and the length of its
\* text. Lengths are
\* scaled: the sizes below stand for 1000/200 and 2000/200 characters.

MaxSections == 3             \* sections of one document
MaxChunks   == 5             \* chunks after which a run is no longer followed
max_section_size     == 3    \* SectionBasedChunker(max_section_size)
chunk_overlap        == 1    \* SectionBasedChunker(chunk_overlap)
latex_max_chunk_size == 4    \* max_chunk_size of the LaTeX path
latex_chunk_overlap  == 1    \* chunk_overlap of the LaTeX path
SecLens == {0, 2, 4, 6}

SectionLists(lens) == UNION {[1..n -> lens] : n \in 1..MaxSections}

\* _create_chunk / the chunk dictionaries of the LaTeX path
create_chunk(section, chunk_index, text) ==
    [section |-> section, chunk_index |-> chunk_index, text |-> text]

\* text_splitter.split_text: the pieces of a section longer than
\* max_section_size, as windows of max_section_size characters that overlap
\* by chunk_overlap; the splitter strips its pieces and drops empty ones, so
\* every piece has text.
RECURSIVE WindowStarts(_, _, _)
WindowStarts(from, len, step) ==
    IF from >= len THEN <<>>
    ELSE <<from>> \o WindowStarts(from + step, len, step)

\* The splitter had it returned the section in one piece.
split_text_Whole(len) == <<len>>

\* The lengths of the pieces.
split_text(len) ==
    LET starts == WindowStarts(0, len, max_section_size - chunk_overlap)
    IN [i \in 1..Len(starts) |-> Min(max_section_size, len - starts[i])]

\* SectionBasedChunker._split_large_section: piece i gets start_chunk_index + i.
split_large_section(len, section, start_chunk_index) ==
    LET sub_texts == split_text(len)
    IN [i \in 1..Len(sub_texts) |->
          create_chunk(section, start_chunk_index + (i - 1), sub_texts[i])]

\* chunk_index += len(sub_chunks)
NextChunkIndex(chunk_index, sub_chunks) == chunk_index + Len(sub_chunks)

\* chunk_sections: the loop over the sections from section i on.
RECURSIVE chunk_sections_from(_, _, _, _)
chunk_sections_from(sections, i, chunks, chunk_index) ==
    IF i > Len(sections) THEN chunks
    ELSE IF sections[i] <= max_section_size
         THEN chunk_sections_from(sections, i + 1,
                                  Append(chunks, create_chunk(i - 1, chunk_index, sections[i])),
                                  chunk_index + 1)
         ELSE LET sub_chunks == split_large_section(sections[i], i - 1, chunk_index)
              IN chunk_sections_from(sections, i + 1, chunks \o sub_chunks,
                                     NextChunkIndex(chunk_index, sub_chunks))

chunk_sections(sections) == chunk_sections_from(sections, 1, <<>>, 0)

\* chunk_sections(sections): the sections come from extract_sections, which
\* keeps no section without text.
ChunkSections(sections) ==
    /\ chunker.pc = "idle"
    /\ chunker' = [IdleChunker EXCEPT !.pc = "done", !.path = "section",
                                      !.sections = sections,
                                      !.chunks = chunk_sections(sections)]
    /\ UNCHANGED <<schedVars, storeVars, queryVars, otherVars, boot, dialogue, extracted, pipeline, lateVars>>

\* _create_chunks_from_latex_sections(sections, metadata) is entered.
LatexBegin(sections) ==
    /\ chunker.pc = "idle"
    /\ chunker' = [IdleChunker EXCEPT !.pc = "latex_loop", !.path = "latex",
                                      !.sections = sections, !.i = 1]
    /\ UNCHANGED <<schedVars, storeVars, queryVars, otherVars, boot, dialogue, extracted, pipeline, lateVars>>

\* One turn of its loop: a section without text is passed over, a section of
\* at most max_chunk_size characters gives one chunk with chunk_index 0, a
\* longer one goes to _split_large_section.
LatexSection ==
    /\ chunker.pc = "latex_loop"
    /\ chunker.i <= Len(chunker.sections)
    /\ LET len == chunker.sections[chunker.i]
       IN chunker' =
            IF len = 0 THEN [chunker EXCEPT !.i = @ + 1]
            ELSE IF len > latex_max_chunk_size
                 THEN [chunker EXCEPT !.pc = "latex_split", !.start = 0,
                                      !.chunk_index = 0]
                 ELSE [chunker EXCEPT !.chunks = Append(@, create_chunk(chunker.i - 1, 0, len)),
                                      !.i = @ + 1]
    /\ UNCHANGED <<schedVars, storeVars, queryVars, otherVars, boot, dialogue, extracted, pipeline, lateVars>>

\* The places where HybridProcessor._split_large_section may end a chunk
\* that starts at start: at most max_chunk_size further, or, short of the
\* end of the section, after a sentence or paragraph break found beyond half
\* of that.
ChunkEnds(start, len) ==
    LET end == Min(start + latex_max_chunk_size, len)
    IN IF end < len
       THEN {e \in (start + (latex_max_chunk_size \div 2) + 1)..end : TRUE}
       ELSE {end}

\* One turn of the while loop of HybridProcessor._split_large_section: the
\* chunk gets the index within its section, start moves to end - chunk_overlap,
\* and the loop is left when start has reached the end of the section.
LatexSplitStep(end) ==
    /\ chunker.pc = "latex_split"
    /\ Len(chunker.chunks) < MaxChunks
    /\ LET len == chunker.sections[chunker.i]
           start == end - latex_chunk_overlap
       IN /\ chunker.start < len
          /\ end \in ChunkEnds(chunker.start, len)
          /\ chunker' =
               [chunker EXCEPT
                  !.chunks = Append(@, create_chunk(chunker.i - 1, chunker.chunk_index,
                                                     end - chunker.start)),
                  !.chunk_index = @ + 1,
                  !.start = start,
                  !.pc = IF start >= len THEN "latex_loop" ELSE "latex_split",
                  !.i = IF start >= len THEN @ + 1 ELSE @]
    /\ UNCHANGED <<schedVars, storeVars, queryVars, otherVars, boot, dialogue, extracted, pipeline, lateVars>>

\* HybridProcessor._create_chunks_from_text: a text without sections, cut
\* into chunks of chunk_size characters that overlap.
text_chunk_size == 6     \* chunk_size of _create_chunks_from_text
text_overlap    == 2     \* overlap of _create_chunks_from_text
TextLens == {0, 1, 4, 8}

\* text[start:end] has this many characters; a negative start counts from
\* the end of the text.
SliceLen(start, end, len) ==
    LET from == IF start >= 0 THEN start
                ELSE IF len + start >= 0 THEN len + start ELSE 0
    IN IF end > from THEN end - from ELSE 0

\* Where _create_chunks_from_text may end a chunk that starts at start: as
\* ChunkEnds, with its own chunk_size.
TextChunkEnds(start, len) ==
    LET end == Min(start + text_chunk_size, len)
    IN IF end < len
       THEN {e \in (start + (text_chunk_size \div 2) + 1)..end : TRUE}
       ELSE {end}

\* _create_chunks_from_text(text, metadata) is entered; the while loop is
\* not entered for an empty text, and [] is returned.
TextBegin(len) ==
    /\ chunker.pc = "idle"
    /\ chunker' = [IdleChunker EXCEPT !.pc = IF 0 < len THEN "text_split" ELSE "done",
                                      !.path = "text", !.sections = <<len>>, !.i = 1]
    /\ UNCHANGED <<schedVars, storeVars, queryVars, otherVars, boot, dialogue, extracted, pipeline, lateVars>>

\* One turn of its while loop: the chunk gets chunk_index len(chunks), start
\* moves to end - overlap, and the loop is left when start has reached the
\* end of the text.
TextSplitStep(end) ==
    /\ chunker.pc = "text_split"
    /\ Len(chunker.chunks) < MaxChunks
    /\ LET len == chunker.sections[1]
           start == end - text_overlap
       IN /\ chunker.start < len
          /\ end \in TextChunkEnds(chunker.start, len)
          /\ chunker' =
               [chunker EXCEPT
                  !.chunks = Append(@, create_chunk(0, Len(chunker.chunks),
                                                    SliceLen(chunker.start, end, len))),
                  !.start = start,
                  !.pc = IF start >= len THEN "done" ELSE "text_split"]
    /\ UNCHANGED <<schedVars, storeVars, queryVars, otherVars, boot, dialogue, extracted, pipeline, lateVars>>

\* _create_chunks_from_latex_sections returns its chunks.
LatexReturn ==
    /\ chunker.pc = "latex_loop"
    /\ chunker.i > Len(chunker.sections)
    /\ chunker' = [chunker EXCEPT !.pc = "done"]
    /\ UNCHANGED <<schedVars, storeVars, queryVars, otherVars, boot, dialogue, extracted, pipeline, lateVars>>

----------------------------------------------------------------------------
\* SectionBasedChunker.extract_sections. A text is the sequence of its
\* characters, each whitespace ("w") or not ("x"); positions count from 0 as
\* in the code. A header is where its match starts (start_pos) and where its
\* title starts (match_start): the regular expressions of _find_all_headers
\* match a line break and whitespace, then the title.

MaxText    == 4      \* characters of a text
MaxHeaders == 2      \* headers detected in a text
Chars == {"w", "x"}
TextsOfArticle == UNION {[1..n -> Chars] : n \in 0..MaxText}

\* text[from:to].strip() is not empty
HasText(text, from, to) == \E p \in from..(to - 1) : text[p + 1] = "x"

HeadersIn(text) ==
    {[start_pos |-> s, match_start |-> t] :
        s \in 0..(Len(text) - 1), t \in 0..(Len(text) - 1)} \cap
    {h \in [start_pos : 0..MaxText, match_start : 0..MaxText] :
        /\ h.start_pos <= h.match_start
        /\ h.match_start < Len(text)
        /\ text[h.match_start + 1] = "x"
        /\ ~HasText(text, h.start_pos, h.match_start)}

\* headers.sort(key = start_pos): the lists of headers of a text, one header
\* per title.
RECURSIVE SortByStartPos(_)
SortByStartPos(hs) ==
    IF hs = {} THEN <<>>
    ELSE LET first == CHOOSE h \in hs : \A g \in hs : h.start_pos <= g.start_pos
         IN <<first>> \o SortByStartPos(hs \ {first})

HeaderLists(text) ==
    {SortByStartPos(hs) : hs \in {S \in SUBSET HeadersIn(text) :
        /\ Cardinality(S) <= MaxHeaders
        /\ \A g, h \in S : g.match_start = h.match_start => g = h}}

\* A section had it ended where its own title starts.
SectionEnd_AtOwnTitle(text, headers, i) == headers[i].match_start + 1

\* The end of the section of header i: the start of the next header, or the
\* end of the text.
SectionEnd(text, headers, i) ==
    IF i + 1 <= Len(headers) THEN headers[i + 1].start_pos ELSE Len(text)

Section(title, start_pos, end_pos) ==
    [title |-> title, start_pos |-> start_pos, end_pos |-> end_pos]

\* _create_sections_from_headers: the sections of headers i.. of the list.
RECURSIVE SectionsOfHeaders(_, _, _)
SectionsOfHeaders(text, headers, i) ==
    IF i > Len(headers) THEN <<>>
    ELSE LET section_start == headers[i].start_pos
             section_end == SectionEnd(text, headers, i)
         IN (IF HasText(text, section_start, section_end)
             THEN <<Section(headers[i].match_start, section_start, section_end)>>
             ELSE <<>>)
            \o SectionsOfHeaders(text, headers, i + 1)

\* _create_sections_from_headers: a "Title" section for the text before the
\* first header when there is text, then the sections of the headers; a
\* section without text is left out.
create_sections_from_headers(text, headers) ==
    (IF headers # <<>> /\ headers[1].start_pos > 0
        /\ HasText(text, 0, headers[1].start_pos)
     THEN <<Section("Title", 0, headers[1].start_pos)>>
     ELSE <<>>)
    \o SectionsOfHeaders(text, headers, 1)

\* extract_sections, from the detected headers on: without headers the whole
\* text is one section.
extract_sections(text, headers) ==
    IF headers = <<>> THEN <<Section("Full Article", 0, Len(text))>>
    ELSE create_sections_from_headers(text, headers)

\* One call of extract_sections in a behaviour.
ExtractSections(text, headers) ==
    /\ ~extracted.called
    /\ extracted' = [called |-> TRUE, text |-> text, headers |-> headers,
                     sections |-> extract_sections(text, headers)]
    /\ UNCHANGED <<schedVars, storeVars, queryVars, otherVars, boot, dialogue, chunker, pipeline, lateVars>>

NextChunk ==
    \/ \E sections \in SectionLists(SecLens \ {0}) : ChunkSections(sections)
    \/ \E sections \in SectionLists(SecLens) : LatexBegin(sections)
    \/ LatexSection
    \/ \E end \in 1..(MaxChunks * latex_max_chunk_size) : LatexSplitStep(end)
    \/ LatexReturn
    \/ \E len \in TextLens : TextBegin(len)
    \/ \E end \in 1..(MaxChunks * text_chunk_size) : TextSplitStep(end)
    \/ \E text \in TextsOfArticle : \E headers \in HeaderLists(text) :
          ExtractSections(text, headers)

SpecChunk == InitStoreAlone /\ [][NextChunk]_vars

----------------------------------------------------------------------------
\* RAGPipeline.process_article (paper_rag/rag_pipeline.py). The acquisition
\* (hybrid or PDF processor) gives data, None, or raises; the chunking gives
\* chunks, an empty list, or raises; what follows add_to_index (the
\* statistics of the result) may raise as well.

MaxCalls == 2        \* process_article calls in one behaviour
AcquireCases == {"ok", "none", "raise"}
ChunkCases   == {"ok", "empty", "raise"}
StatsCases   == {"ok", "raise"}

Processed(st, stages, add_called, success, error) ==
    [store |-> st, stages |-> stages, add_called |-> add_called,
     success |-> success, error |-> error, raised |-> FALSE]

\* process_article without the test for an empty chunk list.
process_article_NoChunkTest(st, paper, acquire, chunking, fault, stats) ==
    IF acquire = "raise" THEN Processed(st, <<"acquire">>, FALSE, FALSE, "exception")
    ELSE IF acquire = "none" THEN Processed(st, <<"acquire">>, FALSE, FALSE, "extract")
    ELSE IF chunking = "raise"
    THEN Processed(st, <<"acquire", "chunk">>, FALSE, FALSE, "exception")
    ELSE LET chunks == IF chunking = "empty" THEN <<>> ELSE paper
             r == add_to_index(st, chunks, fault)
             after == [index |-> r.index, chunks_metadata |-> r.chunks_metadata,
                       bm25_index |-> r.bm25_index, disk |-> r.disk]
             stages == <<"acquire", "chunk", "add_to_index">>
         IN IF ~r.ret THEN Processed(after, stages, TRUE, FALSE, "index")
            ELSE IF stats = "raise" THEN Processed(after, stages, TRUE, FALSE, "exception")
            ELSE Processed(after, stages, TRUE, TRUE, "none")

\* process_article: one try around the three stages; every return is a
\* dictionary with 'success', the except branch included.
process_article(st, paper, acquire, chunking, fault, stats) ==
    IF acquire = "raise" THEN Processed(st, <<"acquire">>, FALSE, FALSE, "exception")
    ELSE IF acquire = "none" THEN Processed(st, <<"acquire">>, FALSE, FALSE, "extract")
    ELSE IF chunking = "raise"
    THEN Processed(st, <<"acquire", "chunk">>, FALSE, FALSE, "exception")
    ELSE IF chunking = "empty"
    THEN Processed(st, <<"acquire", "chunk">>, FALSE, FALSE, "chunks")
    ELSE LET r == add_to_index(st, paper, fault)
             after == [index |-> r.index, chunks_metadata |-> r.chunks_metadata,
                       bm25_index |-> r.bm25_index, disk |-> r.disk]
             stages == <<"acquire", "chunk", "add_to_index">>
         IN IF ~r.ret THEN Processed(after, stages, TRUE, FALSE, "index")
            ELSE IF stats = "raise" THEN Processed(after, stages, TRUE, FALSE, "exception")
            ELSE Processed(after, stages, TRUE, TRUE, "none")

\* rag_pipeline.process_article(arxiv_id, pdf_url)
ProcessArticle(arxiv_id, acquire, chunking, fault, stats) ==
    /\ pipeline.n < MaxCalls
    /\ LET r == process_article(Store, Paper(arxiv_id), acquire, chunking, fault, stats)
       IN /\ index' = r.store.index
          /\ chunks_metadata' = r.store.chunks_metadata
          /\ bm25_index' = r.store.bm25_index
          /\ disk' = r.store.disk
          /\ pipeline' = [called |-> TRUE, n |-> pipeline.n + 1,
                          acquire |-> acquire, chunking |-> chunking,
                          stages |-> r.stages, add_called |-> r.add_called,
                          success |-> r.success, error |-> r.error,
                          raised |-> r.raised, before |-> Store]
    /\ UNCHANGED <<schedVars, lastAdd, queryVars, otherVars, boot, dialogue, docVars, lateVars>>

NextPipeline ==
    \E arxiv_id \in Docs, acquire \in AcquireCases, chunking \in ChunkCases,
       fault \in AddFaults, stats \in StatsCases :
        ProcessArticle(arxiv_id, acquire, chunking, fault, stats)

SpecPipeline == InitStoreAlone /\ [][NextPipeline]_vars

----------------------------------------------------------------------------
\* _process_task with its subscribers (async_processor.py 79-141, 173-264).
\* Every event type has NumCallbacks subscribers; a callback returns or
\* raises. A task is the outcome its ingestion will have: the article is
\* found in the index ("cached"), process_article returns success True or
\* False, or something in _process_task raises.

NumCallbacks == 2    \* subscribers of each event type
MaxQueued    == 2    \* tasks queued for the worker
TaskResults == {"cached", "success", "failure", "raises"}
CallbackOutcomes == {"returns", "raises"}
NotifyPcs == {"on_start", "on_progress_1", "on_progress_2", "on_complete", "on_error"}

\* The event type notified at a place of _process_task.
EventOf(pc) == IF pc \in {"on_progress_1", "on_progress_2"} THEN "on_progress" ELSE pc

\* _notify_callbacks without the try around callback(data): the exception
\* reaches the except of _process_task, which calls _error_task; raised
\* inside _error_task it reaches the except of _worker_loop.
notify_callback_NoTry(w, outcome) ==
    IF outcome = "returns"
    THEN [w EXCEPT !.i = @ + 1, !.calls = Append(@, EventOf(w.pc))]
    ELSE IF w.pc = "on_error"
    THEN [w EXCEPT !.i = NumCallbacks + 1, !.calls = Append(@, EventOf(w.pc)),
                   !.raised = TRUE]
    ELSE [w EXCEPT !.pc = "on_error", !.i = 1, !.status = "error",
                   !.active = FALSE, !.calls = Append(@, EventOf(w.pc)),
                   !.raised = TRUE]

\* One turn of the loop of _notify_callbacks: the callback is called; what it
\* raises is logged and the loop goes on.
notify_callback(w, outcome) ==
    [w EXCEPT !.i = @ + 1, !.calls = Append(@, EventOf(w.pc)),
              !.raised = @ \/ (outcome = "raises")]

\* The task is over: _process_task returns to _worker_loop.
TaskOver(w) ==
    [w EXCEPT !.pc = "loop", !.i = 0,
              !.log = Append(@, [result |-> w.result, status |-> w.status,
                                 active |-> w.active, calls |-> w.calls,
                                 raised |-> w.raised])]

\* queue_article has put these tasks in the queue.
Enqueue(results) ==
    /\ worker.pc = "idle"
    /\ worker' = [worker EXCEPT !.pc = "loop", !.queue = results]
    /\ UNCHANGED <<earlyVars, expansion>>

\* _worker_loop takes a task; _process_task sets it 'processing' and
\* notifies on_start.
TakeTask ==
    /\ worker.pc = "loop"
    /\ worker.queue # <<>>
    /\ worker' = [worker EXCEPT !.pc = "on_start", !.queue = Tail(@),
                                !.result = Head(worker.queue),
                                !.status = "processing", !.active = TRUE,
                                !.i = 1, !.calls = <<>>, !.raised = FALSE]
    /\ UNCHANGED <<earlyVars, expansion>>

\* The next subscriber of the event is called.
Callback(outcome) ==
    /\ worker.pc \in NotifyPcs
    /\ worker.i <= NumCallbacks
    /\ worker' = notify_callback(worker, outcome)
    /\ UNCHANGED <<earlyVars, expansion>>

\* _update_progress(task_id, 'extracting_text', 25) after on_start.
UpdateProgress ==
    /\ worker.pc = "on_start"
    /\ worker.i > NumCallbacks
    /\ worker' = [worker EXCEPT !.pc = "on_progress_1", !.i = 1]
    /\ UNCHANGED <<earlyVars, expansion>>

\* Lines 114-141: the article is in the index (_complete_task), or
\* process_article succeeds (_update_progress 'completed'), or it fails or
\* something raises (_error_task: status 'error', the task leaves
\* active_tasks, then on_error).
Ingest ==
    /\ worker.pc = "on_progress_1"
    /\ worker.i > NumCallbacks
    /\ worker' =
         IF worker.result = "cached"
         THEN [worker EXCEPT !.pc = "on_complete", !.i = 1, !.status = "completed"]
         ELSE IF worker.result = "success"
         THEN [worker EXCEPT !.pc = "on_progress_2", !.i = 1]
         ELSE [worker EXCEPT !.pc = "on_error", !.i = 1, !.status = "error",
                             !.active = FALSE]
    /\ UNCHANGED <<earlyVars, expansion>>

\* _complete_task after the last on_progress: status 'completed', on_complete.
CompleteTask ==
    /\ worker.pc = "on_progress_2"
    /\ worker.i > NumCallbacks
    /\ worker' = [worker EXCEPT !.pc = "on_complete", !.i = 1, !.status = "completed"]
    /\ UNCHANGED <<earlyVars, expansion>>

\* _complete_task after on_complete: the task leaves active_tasks.
CompleteReturn ==
    /\ worker.pc = "on_complete"
    /\ worker.i > NumCallbacks
    /\ worker' = TaskOver([worker EXCEPT !.active = FALSE])
    /\ UNCHANGED <<earlyVars, expansion>>

\* _error_task after on_error.
ErrorReturn ==
    /\ worker.pc = "on_error"
    /\ worker.i > NumCallbacks
    /\ worker' = TaskOver(worker)
    /\ UNCHANGED <<earlyVars, expansion>>

NextNotify ==
    \/ \E n \in 1..MaxQueued : \E results \in [1..n -> TaskResults] : Enqueue(results)
    \/ TakeTask
    \/ \E outcome \in CallbackOutcomes : Callback(outcome)
    \/ UpdateProgress
    \/ Ingest
    \/ CompleteTask
    \/ CompleteReturn
    \/ ErrorReturn

SpecNotify == InitStoreAlone /\ [][NextNotify]_vars

----------------------------------------------------------------------------
\* QueryProcessor._get_section_chunks on an index that holds the chunks of one
\* document, as a chunker returned them. A row is a chunk with the arxiv_id
\* of its document and its place in the index.

BROAD_K == 50          \* search(query, k=50)
NumBroadQueries == 4   \* broad_queries

IndexedRow(d, chunks, p) ==
    [arxiv_id |-> d, section |-> chunks[p].section,
     chunk_index |-> chunks[p].chunk_index, id |-> p - 1]
IndexedRows(d, chunks) == [p \in 1..Len(chunks) |-> IndexedRow(d, chunks, p)]

\* The orders in which a dense search may rank the rows; the ranking depends
\* on the query and the texts. The model takes the order of the index, its
\* rotations and its reverse.
Rotate(rows, r) == [p \in 1..Len(rows) |-> rows[((p + r - 1) % Len(rows)) + 1]]
Reverse(rows) == [p \in 1..Len(rows) |-> rows[Len(rows) + 1 - p]]
Rankings(rows) == {Rotate(rows, r) : r \in 0..(Len(rows) - 1)} \cup {Reverse(rows)}

\* embedding_manager.search(query, k=50) with the rows ranked as given.
broad_search(ranking) == SubSeq(ranking, 1, Min(BROAD_K, Len(ranking)))

\* list.sort(key = chunk_index): ascending and stable.
SortByChunkIndex(chunks) ==
    LET n == Len(chunks)
        Rank(i) == Cardinality({j \in 1..n :
                      \/ chunks[j].chunk_index < chunks[i].chunk_index
                      \/ chunks[j].chunk_index = chunks[i].chunk_index /\ j < i})
    IN [p \in 1..n |-> chunks[CHOOSE i \in 1..n : Rank(i) = p - 1]]

\* The inner loop of _get_all_article_chunks over the results of one broad
\* query, from result i on: a result is kept when it is of the article and
\* its chunk_index has not been seen.
RECURSIVE KeepUnseen(_, _, _, _, _)
KeepUnseen(results, i, arxiv_id, all_chunks, seen_chunk_ids) ==
    IF i > Len(results)
    THEN [all_chunks |-> all_chunks, seen_chunk_ids |-> seen_chunk_ids]
    ELSE IF /\ results[i].arxiv_id = arxiv_id
            /\ results[i].chunk_index \notin seen_chunk_ids
         THEN KeepUnseen(results, i + 1, arxiv_id, Append(all_chunks, results[i]),
                         seen_chunk_ids \cup {results[i].chunk_index})
         ELSE KeepUnseen(results, i + 1, arxiv_id, all_chunks, seen_chunk_ids)

\* _get_all_article_chunks: the broad queries, from query q on; rankings[q]
\* is how query q ranks the rows.
RECURSIVE get_all_article_chunks_from(_, _, _, _, _)
get_all_article_chunks_from(rankings, q, arxiv_id, all_chunks, seen_chunk_ids) ==
    IF q > NumBroadQueries THEN SortByChunkIndex(all_chunks)
    ELSE LET kept == KeepUnseen(broad_search(rankings[q]), 1, arxiv_id,
                                all_chunks, seen_chunk_ids)
         IN get_all_article_chunks_from(rankings, q + 1, arxiv_id,
                                        kept.all_chunks, kept.seen_chunk_ids)

get_all_article_chunks(rankings, arxiv_id) ==
    get_all_article_chunks_from(rankings, 1, arxiv_id, <<>>, {})

\* _get_section_chunks: the winning chunk alone when the article has no chunk
\* among the results, else the chunks of the winner's section, sorted.
get_section_chunks(top_chunk, arxiv_id, rankings) ==
    LET all_article_chunks == get_all_article_chunks(rankings, arxiv_id)
    IN IF all_article_chunks = <<>> THEN <<top_chunk>>
       ELSE SortByChunkIndex(SelectSeq(all_article_chunks,
                                       LAMBDA c : c.section = top_chunk.section))

\* process_query has found the chunk at place p of the index and asks for
\* the chunks of its section; first ranks the rows for the first broad
\* query, others for the next ones.
GetSectionChunks(p, arxiv_id, first, others) ==
    /\ chunker.pc = "done"
    /\ p \in 1..Len(chunker.chunks)
    /\ LET rows == IndexedRows("X", chunker.chunks)
       IN /\ first \in Rankings(rows)
          /\ others \in {first, Reverse(first)}
          /\ expansion' =
               [called |-> TRUE, arxiv_id |-> arxiv_id, top_chunk |-> p, rows |-> rows,
                section_chunks |->
                    get_section_chunks(rows[p], arxiv_id,
                        [q \in 1..NumBroadQueries |-> IF q = 1 THEN first ELSE others])]
    /\ UNCHANGED <<earlyVars, worker>>

NextExpand ==
    \/ \E sections \in SectionLists(SecLens \ {0}) : ChunkSections(sections)
    \/ \E sections \in SectionLists(SecLens) : LatexBegin(sections)
    \/ LatexSection
    \/ \E end \in 1..(MaxChunks * latex_max_chunk_size) : LatexSplitStep(end)
    \/ LatexReturn
    \/ \E p \in 1..(MaxSections * MaxChunks), arxiv_id \in {"X", "None"} :
          \E first \in Rankings(IndexedRows("X", chunker.chunks)) :
             \E others \in {first, Reverse(first)} :
                GetSectionChunks(p, arxiv_id, first, others)

SpecExpand == InitStoreAlone /\ [][NextExpand]_vars

----------------------------------------------------------------------------
\* AsyncPaperProcessor.get_article_status

\* None
NoStatus == [status |-> "None", arxiv_id |-> "None", queued_time |-> 0,
             done_time |-> 0, cached |-> FALSE]

\* get_article_status(arxiv_id): among the records of the article, the one
\* with the greatest status.get('queued_time', 0), which must exceed the
\* latest_time 0 the loop starts from. Two records of one article never have
\* the same queued_time, so the order of the dictionary plays no part.
get_article_status(status_history, arxiv_id) ==
    LET found == {k \in DOMAIN status_history :
                    /\ status_history[k].arxiv_id = arxiv_id
                    /\ status_history[k].queued_time > 0}
    IN IF found = {} THEN NoStatus
       ELSE status_history[CHOOSE k \in found :
               \A j \in found :
                  status_history[j].queued_time <= status_history[k].queued_time]

----------------------------------------------------------------------------
\* The scheduler with the ingestion of a LaTeX paper followed step by step,
\* for what holds in the end: the worker thread and a request in progress
\* are scheduled fairly, stop() is not called, every fetch returns.

\* The papers whose LaTeX source is chunked: one short section, one section
\* longer than max_chunk_size.
LiveSections == {<<2>>, <<6>>}

\* process_article, called at line 127, has the LaTeX source of the paper
\* and hands its sections to _create_chunks_from_latex_sections.
WorkerProcessLatex(t) ==
    /\ threads[t].pc = "process_article"
    /\ chunker.pc = "idle"
    /\ threads' = [threads EXCEPT ![t].pc = "latex"]
    /\ UNCHANGED <<now, processing_queue, processing_status, active_tasks,
                   running, worker_thread, rq, created, started, finished>>
    /\ UNCHANGED <<storeVars, queryVars, otherVars, restVars>>

\* A step of the chunking, taken by the worker thread that is in it.
WorkerLatexStep ==
    /\ \E t \in 1..MaxThreads : threads[t].pc = "latex"
    /\ \/ \E sections \in LiveSections : LatexBegin(sections)
       \/ LatexSection
       \/ \E end \in 1..(MaxChunks * latex_max_chunk_size) : LatexSplitStep(end)
       \/ LatexReturn

\* The chunks have come back: process_article adds them to the index and
\* returns success or a failure result.
WorkerLatexDone(t) ==
    /\ threads[t].pc = "latex"
    /\ chunker.pc = "done"
    /\ \E fault \in {"none", "encode"} :
         LET r == add_to_index(Store, Paper(threads[t].arxiv_id), fault)
         IN /\ index' = r.index
            /\ chunks_metadata' = r.chunks_metadata
            /\ bm25_index' = r.bm25_index
            /\ disk' = r.disk
            /\ threads' = [threads EXCEPT ![t].pc = IF r.ret THEN "complete" ELSE "error"]
    /\ chunker' = IdleChunker
    /\ UNCHANGED <<now, processing_queue, processing_status, active_tasks,
                   running, worker_thread, rq, created, started, finished>>
    /\ UNCHANGED <<lastAdd, queryVars, otherVars, boot, dialogue, extracted,
                   pipeline, lateVars>>

\* The steps of the worker threads.
WorkerSteps ==
    \/ \E t \in 1..MaxThreads : WorkerLoop(t)
    \/ \E t \in 1..MaxThreads : WorkerPoll(t)
    \/ \E t \in 1..MaxThreads : WorkerSetProcessing(t)
    \/ \E t \in 1..MaxThreads : WorkerMarkActive(t)
    \/ \E t \in 1..MaxThreads : WorkerProcessArticle(t)
    \/ \E t \in 1..MaxThreads : WorkerProcessLatex(t)
    \/ WorkerLatexStep
    \/ \E t \in 1..MaxThreads : WorkerLatexDone(t)
    \/ \E t \in 1..MaxThreads : WorkerComplete(t)
    \/ \E t \in 1..MaxThreads : WorkerError(t)
    \/ \E t \in 1..MaxThreads : WorkerRemoveActive(t)

\* The steps of a queue_article call that has begun.
RequestSteps ==
    \/ QueuePut
    \/ QueueSetStatus
    \/ QueueSetActive
    \/ QueueReturn

NextLive ==
    \/ \E d \in Docs : QueueCheck(d)
    \/ RequestSteps
    \/ WorkerSteps
    \/ Tick

SpecLive ==
    /\ InitStoreAlone
    /\ [][NextLive]_vars
    /\ WF_vars(WorkerSteps)
    /\ WF_vars(RequestSteps)

----------------------------------------------------------------------------
\* Properties of the scheduler.

IsInProgress(k) == processing_status[k].status \in {"queued", "processing"}
TasksInProgress(d) ==
    {k \in DOMAIN processing_status :
        processing_status[k].arxiv_id = d /\ IsInProgress(k)}
Busy(t) == threads[t].pc \in {"set_processing", "mark_active", "process_article",
                              "complete", "error", "remove_active"}

\* C1: a queue_article call made while a task of the document is queued or
\* processing returns the task id of that task, the key under which
\* get_task_status reports it.
C1_ReturnsExistingTaskId ==
    (rq.pc = "return" /\ rq.existing # NoTask) => rq.task_id = rq.existing

\* C2: every document has at most one task that is queued or processing, and
\* a queue_article call that finds such a task puts nothing on the queue and
\* adds nothing to processing_status or active_tasks.
C2_OneTaskInProgressPerDocument ==
    /\ [](\A d \in Docs : Cardinality(TasksInProgress(d)) <= 1)
    /\ [][(rq.pc = "idle" /\ rq'.pc = "return")
            => UNCHANGED <<processing_queue, processing_status, active_tasks>>]_vars

\* A second queue_article call for a document was answered with the task
\* already there, which the worker is processing.
C2_Witness ==
    /\ rq.pc = "return"
    /\ rq.existing \in DOMAIN processing_status
    /\ processing_status[rq.existing].status = "processing"
    /\ Cardinality(TasksInProgress(rq.arxiv_id)) = 1

StatusRank(s) == CASE s = "queued" -> 0
                   [] s = "processing" -> 1
                   [] OTHER -> 2

\* C3: the status of a task id only moves forward, queued -> processing ->
\* completed | error: never back to an earlier status, and never changed once
\* completed or error.
C3_StatusMovesForward ==
    [][\A k \in DOMAIN processing_status \cap DOMAIN processing_status' :
          LET old == processing_status[k].status
              new == processing_status'[k].status
          IN /\ StatusRank(new) >= StatusRank(old)
             /\ StatusRank(old) = 2 => new = old]_vars

RowsOf(meta, d) == {i \in 1..Len(meta) : meta[i].arxiv_id = d}

\* C6: a task for a document that has chunks in the index is completed as
\* cached and never reaches process_article, so the document's index entries
\* never grow past one copy of its chunks.
C6_IndexedDocumentIsNotReprocessed ==
    /\ \A t \in 1..MaxThreads :
          threads[t].pc = "process_article"
             => RowsOf(chunks_metadata, threads[t].arxiv_id) = {}
    /\ \A d \in Docs :
          Cardinality(RowsOf(chunks_metadata, d)) <= Len(Paper(d))

\* C9: at most one task has status 'processing', at most one process_article
\* call is running, and at most one worker thread holds a task.
C9_OneTaskAtATime ==
    /\ Cardinality({k \in DOMAIN processing_status :
                      processing_status[k].status = "processing"}) <= 1
    /\ Cardinality({t \in 1..MaxThreads : threads[t].pc = "process_article"}) <= 1
    /\ Cardinality({t \in 1..MaxThreads : Busy(t)}) <= 1

\* process_article is running for one task while another waits in the queue
\* with status 'queued'.
C9_Witness ==
    /\ \E t \in 1..MaxThreads : threads[t].pc = "process_article"
    /\ \E k \in DOMAIN processing_status : processing_status[k].status = "processing"
    /\ \E i \in 1..Len(processing_queue) :
          /\ processing_queue[i].task_id \in DOMAIN processing_status
          /\ processing_status[processing_queue[i].task_id].status = "queued"

\* C10: tasks turn 'processing' in the order queue_article created them, each
\* after every earlier task reached its terminal status.
C10_FifoOrder ==
    /\ \A t \in 1..MaxThreads :
          threads[t].pc = "set_processing"
             => threads[t].seq = started + 1 /\ finished = started
    /\ \A i \in 1..Len(processing_queue) :
          /\ processing_queue[i].seq > started
          /\ \A j \in 1..(i - 1) : processing_queue[j].seq < processing_queue[i].seq

\* The second task created is about to turn 'processing', the first having
\* been queued together with it and finished.
C10_Witness ==
    /\ \E t \in 1..MaxThreads :
          threads[t].pc = "set_processing" /\ threads[t].seq = 2
    /\ finished = 1

----------------------------------------------------------------------------
\* Properties of the store and of the hybrid search.

\* C4: after an add_to_index call has returned, True or False, the index
\* holds as many vectors as chunks_metadata has rows, and a call that
\* returned False left the vectors and the rows as they were.
C4_VectorCountEqualsMetadataLength ==
    lastAdd.called =>
        /\ Len(index.vecs) = Len(chunks_metadata)
        /\ ~lastAdd.ret =>
              /\ index.vecs = lastAdd.before.index.vecs
              /\ chunks_metadata = lastAdd.before.chunks_metadata

\* C5: when encode raises inside add_to_index, the call returns False and
\* the index, the metadata table, the BM25 index and the three files are what
\* they were before the call.
C5_EncodeErrorLeavesStoreUntouched ==
    (lastAdd.called /\ lastAdd.fault = "encode") =>
        /\ ~lastAdd.ret
        /\ Store = lastAdd.before

\* encode raised in an add_to_index call on a store that already held chunks
\* and files.
C5_Witness ==
    /\ lastAdd.called
    /\ lastAdd.fault = "encode"
    /\ lastAdd.chunks # <<>>
    /\ lastAdd.before.chunks_metadata # <<>>
    /\ lastAdd.before.disk.index.exists

FilteredQueryHit ==
    /\ lastQuery.called
    /\ lastQuery.arxiv_id # "None"
    /\ lastQuery.result.kind = "hit"
    /\ RowsOf(chunks_metadata, lastQuery.arxiv_id) # {}
    /\ \E d \in Docs \ {lastQuery.arxiv_id} : RowsOf(chunks_metadata, d) # {}

\* C7 as stated: a query with document filter X on an index that holds chunks
\* of X and of other documents, when it finds a chunk, finds a chunk of X.
C7_WinnerIsOfFilteredDocument ==
    FilteredQueryHit => lastQuery.result.chunk.arxiv_id = lastQuery.arxiv_id

InBm25Top(a) == ByArticle(bm25_search(Store, BM25_K), a) # <<>>
InDenseTop(a) ==
    ByArticle(search(Store, FALLBACK_K_FILTERED, lastQuery.fault), a) # <<>>

\* C7 as amended: the winning chunk is of X whenever a chunk of X is among
\* the ten BM25 candidates or among the ten nearest dense hits.
C7_WinnerIsOfFilteredDocumentWithinTopK ==
    (FilteredQueryHit /\ (InBm25Top(lastQuery.arxiv_id) \/ InDenseTop(lastQuery.arxiv_id)))
        => lastQuery.result.chunk.arxiv_id = lastQuery.arxiv_id

\* A filtered query answered on the dense path with a chunk of X although
\* the nearest dense hit is of another document.
C7_Witness ==
    /\ FilteredQueryHit
    /\ lastQuery.result.search_type = "dense"
    /\ lastQuery.result.chunk.arxiv_id = lastQuery.arxiv_id
    /\ search(Store, 1, lastQuery.fault)[1].arxiv_id # lastQuery.arxiv_id

MaxCombined(candidates) ==
    CHOOSE m \in {CombinedScore(candidates[i]) : i \in 1..Len(candidates)} :
        \A i \in 1..Len(candidates) : CombinedScore(candidates[i]) <= m

\* C8: for a non-empty candidate list the re-ranking returns a candidate
\* whose combined score 0.3 * bm25 + 0.7 * similarity is the greatest of
\* all, with that value in its 'score' field.
C8_RerankReturnsMaximum ==
    (rerankOut.called /\ rerankOut.fault = "none" /\ rerankIn # <<>>) =>
        /\ rerankOut.result.kind = "hit"
        /\ rerankOut.result.chunk.score = MaxCombined(rerankIn)
        /\ \E i \in 1..Len(rerankIn) :
              /\ rerankIn[i].id = rerankOut.result.chunk.id
              /\ CombinedScore(rerankIn[i]) = MaxCombined(rerankIn)

----------------------------------------------------------------------------
\* Properties of the store under a concurrent reader.

\* C11: a search or bm25_search that runs while add_to_index is under way
\* never meets a partially applied add: not more vectors than metadata rows,
\* and no BM25 corpus of another size than the metadata table.
C11_NoTornRead ==
    reader.called =>
        /\ reader.op = "search" => reader.nvec <= reader.nmeta
        /\ reader.op = "bm25_search" => reader.ncorpus = reader.nmeta

----------------------------------------------------------------------------
\* Properties of start-up loading.

\* C12: after start-up loading the index and the metadata table are both
\* loaded with the same number of elements, or the store is empty: no index,
\* no metadata rows, no BM25 index.
C12_LoadedStoreIsConsistentOrEmpty ==
    (boot.loaded /\ ~lastAdd.called) =>
        \/ index.exists /\ Len(index.vecs) = Len(chunks_metadata)
        \/ ~index.exists /\ chunks_metadata = <<>> /\ ~bm25_index.exists

----------------------------------------------------------------------------
\* Properties of the dialogue manager.

\* C15: total_chars is the sum of the content lengths of the live messages,
\* after any sequence of add_message, compaction and clear_dialogue.
C15_TotalCharsIsSumOfLiveMessages ==
    dialogue.total_chars = SumChars(dialogue.messages)

\* Messages were compacted and live messages remain.
C15_Witness ==
    /\ dialogue.summary_block # <<>>
    /\ Len(dialogue.messages) >= 2
    /\ dialogue.total_chars > 0

Compacted ==
    /\ dialogue.summary_block # <<>>
    /\ Len(dialogue.messages) < Len(dialogue.added)

\* C16 as stated: whenever add_message finds total_chars above max_chars,
\* compaction has taken place when it returns, also for a first message that
\* alone exceeds max_chars.
C16_CrossingCompacts == dialogue.crossed => Compacted

\* C16 as amended: the same, when the message is not the first since the
\* last clear (so that at least two messages are live).
C16_CrossingCompactsFromSecondMessage ==
    (dialogue.crossed /\ Len(dialogue.added) >= 2) => Compacted

\* The second message since the last clear made total_chars cross max_chars
\* and the first went to the summary block.
C16_Witness ==
    /\ dialogue.crossed
    /\ Len(dialogue.added) = 2
    /\ Compacted

MessageLines(text) == SelectSeq(text, LAMBDA line : line.kind = "message")
MaxMsgLen == CHOOSE n \in MsgLens : \A k \in MsgLens : k <= n

\* C17: the length of get_dialogue_context() stays within a bound that does
\* not depend on the number of turns. The bound tried is generous: twice
\* what the live messages can hold (max_chars and one message more), against
\* the message characters of the output alone.
C17_ContextIsBounded ==
    SumChars(MessageLines(get_dialogue_context(dialogue)))
        <= 2 * (max_chars + MaxMsgLen)

\* C18: get_dialogue_context() is the summary block, when there is one,
\* followed by the live messages, and the messages added since the last clear
\* appear in it in the order they were added, each once.
C18_ContextKeepsOrder ==
    LET context == get_dialogue_context(dialogue)
        ids == [i \in 1..Len(MessageLines(context)) |-> MessageLines(context)[i].id]
        n == Len(dialogue.summary_block)
    IN /\ ids = dialogue.added
       /\ n > 0 => SubSeq(context, 1, n) = dialogue.summary_block
       /\ \A i \in 1..Len(context) :
             context[i].kind = "current" => i > n

\* Two compactions have taken place and live messages remain.
C18_Witness ==
    /\ Len(SelectSeq(dialogue.summary_block, LAMBDA line : line.kind = "previous")) = 2
    /\ Len(dialogue.messages) >= 2
    /\ Len(dialogue.added) >= 5

----------------------------------------------------------------------------
\* Properties of the chunkers.

GlobalIndex(chunks) == \A k \in 1..Len(chunks) : chunks[k].chunk_index = k - 1

\* C13: in the chunk list of a document, from chunk_sections and
\* from the LaTeX-section path alike, chunk_index runs 0..n-1 over all
\* sections in document order.
C13_ChunkIndexIsDocumentGlobal ==
    chunker.pc = "done" => GlobalIndex(chunker.chunks)

Contiguous(sections, text) ==
    /\ sections # <<>>
    /\ \A i \in 1..Len(sections) : sections[i].start_pos <= sections[i].end_pos
    /\ \A i \in 1..(Len(sections) - 1) : sections[i].end_pos = sections[i + 1].start_pos
    /\ sections[Len(sections)].end_pos = Len(text)

----------------------------------------------------------------------------
\* Properties of a query on a store without vectors.

NoVectors == ~index.exists \/ index.vecs = <<>>

\* C19: a query before any index exists, or against an empty index, with or
\* without a document filter, gives success False and no exception, to the
\* caller of process_query and to the caller of query_article.
C19_QueryWithoutVectorsFailsQuietly ==
    (lastQuery.called /\ NoVectors) =>
        /\ lastQuery.process_query = Outcome(FALSE, FALSE)
        /\ lastQuery.query_article = Outcome(FALSE, FALSE)

\* A filtered query was made on an index that exists and holds no vector.
C19_Witness ==
    /\ lastQuery.called
    /\ lastQuery.arxiv_id # "None"
    /\ index.exists
    /\ index.vecs = <<>>

----------------------------------------------------------------------------
\* Properties of process_article.

----------------------------------------------------------------------------
\* Properties of the subscriber callbacks.

Repeat(event) == [k \in 1..NumCallbacks |-> event]

\* The callbacks a task calls, by its ingestion outcome.
CallsOf(result) ==
    Repeat("on_start") \o Repeat("on_progress") \o
    (IF result = "cached" THEN Repeat("on_complete")
     ELSE IF result = "success" THEN Repeat("on_progress") \o Repeat("on_complete")
     ELSE Repeat("on_error"))

\* C21: a callback that raises does not abort the worker: every callback of
\* every event of a task is called, the task ends 'completed' or 'error' as
\* its ingestion decides, and the worker is back in its loop for the next
\* task.
C21_CallbackExceptionIsContained ==
    /\ \A j \in 1..Len(worker.log) :
          /\ worker.log[j].calls = CallsOf(worker.log[j].result)
          /\ worker.log[j].status =
                (IF worker.log[j].result \in {"cached", "success"}
                 THEN "completed" ELSE "error")
          /\ ~worker.log[j].active
    /\ worker.pc \in NotifyPcs =>
          SubSeq(CallsOf(worker.result), 1, Len(worker.calls)) = worker.calls

\* A callback raised during a task that ingested well; that task and the one
\* after it are over.
C21_Witness ==
    /\ Len(worker.log) = 2
    /\ worker.log[1].raised
    /\ worker.log[1].result = "success"
    /\ worker.log[1].status = "completed"

----------------------------------------------------------------------------
\* Properties of stop().

\* C22: once stop() has set running to False, the worker takes no new task
\* from the queue (and so no task moves from 'queued' to 'processing').
C22_NoPickupAfterStop ==
    [][~running => Len(processing_queue') >= Len(processing_queue)]_vars

----------------------------------------------------------------------------
\* Properties of cleanup_old_tasks.

\* A task that ended more than max_age_hours ago.
OlderTerminal(status, max_age_hours) ==
    /\ status.status \in {"completed", "error"}
    /\ now - status.done_time > max_age_hours * 3600

\* C23: a task leaves the status history only by cleanup_old_tasks, which
\* removes exactly the 'completed' and 'error' tasks older than max_age and
\* leaves every other task, the queue and active_tasks as they are; until
\* then get_task_status finds the task.
C23_CleanupRemovesExactlyOldTerminalTasks ==
    [][LET removed == DOMAIN processing_status \ DOMAIN processing_status'
       IN removed # {} =>
            /\ \E max_age_hours \in CleanupAges :
                  removed = {k \in DOMAIN processing_status :
                               OlderTerminal(processing_status[k], max_age_hours)}
            /\ \A k \in DOMAIN processing_status \ removed :
                  processing_status'[k] = processing_status[k]
            /\ DOMAIN processing_status' \subseteq DOMAIN processing_status
            /\ processing_queue' = processing_queue
            /\ active_tasks' = active_tasks]_vars

\* The task of paper X ended and has been removed, while the task of paper Y,
\* which ended this second, is still in the status history.
C23_Witness ==
    /\ RowsOf(chunks_metadata, "X") # {}
    /\ \A k \in DOMAIN processing_status : processing_status[k].arxiv_id = "Y"
    /\ \E k \in DOMAIN processing_status :
          /\ processing_status[k].status \in {"completed", "error"}
          /\ processing_status[k].done_time = now

----------------------------------------------------------------------------
\* Properties of chunk_sections.

\* The chunks of the section at place i of the list, in the order of the list.
ChunksOfSection(chunks, i) == SelectSeq(chunks, LAMBDA c : c.section = i - 1)

\* A short section, one that splits in two, a short section: the document of
\* 50, 1500 and 80 characters at the scale of the model.
ThreeSections(sections) ==
    /\ Len(sections) = 3
    /\ sections[1] <= max_section_size
    /\ sections[3] <= max_section_size
    /\ sections[2] > max_section_size
    /\ sections[2] <= 2 * (max_section_size - chunk_overlap)

----------------------------------------------------------------------------
\* Properties of compaction over time.

\* The lines of the block that follow its first n lines.
LinesAfter(block, n) == SubSeq(block, n + 1, Len(block))

\* C25: a compaction of n live messages moves the oldest n \div 2 of them, in
\* their order, to the end of summary_block and keeps the others in their
\* order; short of clear_dialogue the old summary_block is a prefix of the new
\* one, and no message of the block is in the live list.
C25_CompactionMovesOldestHalf ==
    [][dialogue'.count = dialogue.count + 1 =>
         LET message == dialogue'.messages[Len(dialogue'.messages)]
             live == Append(dialogue.messages, message)
             n == Len(live)
             old == Len(dialogue.summary_block)
         IN /\ message.id = dialogue.count + 1
            /\ Len(dialogue'.summary_block) >= old
            /\ SubSeq(dialogue'.summary_block, 1, old) = dialogue.summary_block
            /\ IF dialogue'.summary_block # dialogue.summary_block
               THEN /\ dialogue'.messages = SubSeq(live, (n \div 2) + 1, n)
                    /\ MessageLines(LinesAfter(dialogue'.summary_block, old))
                         = [i \in 1..(n \div 2) |-> MessageLine(live[i])]
               ELSE dialogue'.messages = live
            /\ \A i \in 1..Len(dialogue'.messages) :
                  \A j \in 1..Len(dialogue'.summary_block) :
                     dialogue'.summary_block[j].kind = "message" =>
                        dialogue'.summary_block[j].id # dialogue'.messages[i].id]_vars

\* Two compactions have happened since the last clear_dialogue.
C25_Witness ==
    /\ Len(SelectSeq(dialogue.summary_block, LAMBDA line : line.kind = "previous")) >= 2
    /\ dialogue.messages # <<>>

----------------------------------------------------------------------------
\* Properties of the fallback to dense search.

\* Lexical search has nothing for the query: there is no corpus, or no chunk
\* of the corpus has a term of the query (every BM25 score is 0).
NoLexicalMatch ==
    \/ ~bm25_index.exists
    \/ chunks_metadata = <<>>
    \/ \A i \in 1..Len(bm25_index.corpus) : bm25_index.corpus[i].lex = 0

\* C26: when lexical search has nothing for the query, in an empty corpus or
\* in one where no chunk matches, _search_relevant_chunk gives what the dense
\* fallback gives (k = 10 with a document filter, k = 5 without) and re-ranks
\* no lexical candidate.
C26_NoLexicalMatchFallsBack ==
    (lastQuery.called /\ NoLexicalMatch) =>
        /\ lastQuery.result.search_type \notin {"hybrid", "bm25"}
        /\ lastQuery.result.kind # "raise"
        /\ lastQuery.result =
              fallback_embedding_search(Store, lastQuery.arxiv_id, lastQuery.fault)

----------------------------------------------------------------------------
\* Properties of the section expansion.

\* C27: section_chunks holds only chunks of the winner's document and
\* section, no two with the same chunk_index, in ascending chunk_index, and
\* the winning chunk is among them; with and without a document filter and
\* for the chunks of either chunker.
C27_SectionChunksAreTheWinnersSection ==
    expansion.called =>
        LET top_chunk == expansion.rows[expansion.top_chunk]
            section_chunks == expansion.section_chunks
        IN /\ \A i \in 1..Len(section_chunks) :
                 /\ section_chunks[i].arxiv_id = top_chunk.arxiv_id
                 /\ section_chunks[i].section = top_chunk.section
           /\ \A i, j \in 1..Len(section_chunks) :
                 i < j => section_chunks[i].chunk_index < section_chunks[j].chunk_index
           /\ \E i \in 1..Len(section_chunks) : section_chunks[i] = top_chunk

----------------------------------------------------------------------------
\* Properties of get_article_status.

\* The tasks of document d in the status history.
TasksOf(d) == {k \in DOMAIN processing_status : processing_status[k].arxiv_id = d}

\* C28: get_article_status(d) is the record of the task of d that was queued
\* last, whatever its state, and None only when no task of d is recorded.
C28_ArticleStatusIsLatestTask ==
    \A d \in Docs :
        IF TasksOf(d) = {} THEN get_article_status(processing_status, d) = NoStatus
        ELSE LET latest == CHOOSE k \in TasksOf(d) : \A j \in TasksOf(d) : j[2] <= k[2]
             IN get_article_status(processing_status, d) = processing_status[latest]

----------------------------------------------------------------------------
\* Properties of the overlap-splitting loops of the LaTeX path.

InSplitLoop(c) == c.pc \in {"latex_split", "text_split"}

\* C30: every turn of the while loops of HybridProcessor._split_large_section
\* and _create_chunks_from_text moves start forward, and when a loop is left
\* the last chunk has ended at the end of the text.
C30_SplitLoopAdvances ==
    [][(InSplitLoop(chunker) /\ chunker' # chunker) =>
          /\ chunker'.start > chunker.start
          /\ ~InSplitLoop(chunker') =>
                chunker'.start + (IF chunker.path = "text" THEN text_overlap
                                  ELSE latex_chunk_overlap)
                   = chunker.sections[chunker.i]]_vars

----------------------------------------------------------------------------
\* Properties of the scheduler in the end.

\* C29: with the worker running and stop() not called, every task in the
\* status history is in the end 'completed' or 'error'.
C29_EveryTaskEnds ==
    \A k \in TaskIds :
        (k \in DOMAIN processing_status)
           ~> (/\ k \in DOMAIN processing_status
               /\ processing_status[k].status \in {"completed", "error"})

============================================================================
